---- MODULE Spec2Model ----
(***************************************************************************)
(* State-machine model of the attitude / propulsion / docking core of the  *)
(* satellite docking simulator (attitudeControl.js, spacecraftManager.js,  *)
(* thrusterSetup.js).                                                      *)
(*                                                                         *)
(* Numbers.  The program computes in IEEE doubles; the model computes in   *)
(* integers on fixed grids, and the configurations it explores are chosen  *)
(* so that the values the properties speak of lie on the grid:             *)
(*   - angular momentum and torque : hundredths  (0.5 is 50, 0.01 is 1)    *)
(*   - wall-clock time (performance.now) : milliseconds                    *)
(*   - fuel and mass : grams; thrust : newtons; specific impulse : seconds *)
(*   - forces : tenths of a newton                                         *)
(*   - thruster positions : whole units; position error : tenths           *)
(*   - linear speed : tenths; angular speed : half degrees per second      *)
(* A quotient that falls between two grid points is rounded toward zero.   *)
(* Vectors are triples <<x, y, z>>.  Arrays are sequences, so the index of *)
(* thruster, wheel or CMG number i of the program is i + 1 here.           *)
(* The value null of the program (a missing timestamp) is -1.               *)
(***************************************************************************)
EXTENDS Integers, Sequences, FiniteSets, TLC

-----------------------------------------------------------------------------
(* Vector arithmetic (CANNON.Vec3)                                         *)

Zero3 == <<0, 0, 0>>

Dot(a, b) == a[1] * b[1] + a[2] * b[2] + a[3] * b[3]

Cross(a, b) ==
  << a[2] * b[3] - a[3] * b[2],
     a[3] * b[1] - a[1] * b[3],
     a[1] * b[2] - a[2] * b[1] >>

VAdd(a, b) == << a[1] + b[1], a[2] + b[2], a[3] + b[3] >>

VSub(a, b) == << a[1] - b[1], a[2] - b[2], a[3] - b[3] >>

VScale(a, k) == << a[1] * k, a[2] * k, a[3] * k >>

LenSq(a) == Dot(a, a)

Abs(x) == IF x < 0 THEN -x ELSE x

Min(a, b) == IF a < b THEN a ELSE b

Max(a, b) == IF a > b THEN a ELSE b

\* Division of the program (floating point) on the grid: the quotient
\* rounded toward zero.  Exact whenever b divides a.
Quot(a, b) ==
  IF b = 0 THEN 0
  ELSE IF (a >= 0) = (b > 0) THEN Abs(a) \div Abs(b)
  ELSE -(Abs(a) \div Abs(b))

VQuot(a, k) == << Quot(a[1], k), Quot(a[2], k), Quot(a[3], k) >>

RECURSIVE SqrtBetween(_, _, _)
\* The integer r with r * r <= n < (r + 1) * (r + 1), given lo * lo <= n < hi * hi.
SqrtBetween(n, lo, hi) ==
  IF hi - lo <= 1 THEN lo
  ELSE IF ((lo + hi) \div 2) * ((lo + hi) \div 2) <= n
  THEN SqrtBetween(n, (lo + hi) \div 2, hi)
  ELSE SqrtBetween(n, lo, (lo + hi) \div 2)

\* Math.sqrt on the grid: the integer square root (exact on perfect squares).
\* The search stays below 46341, whose square is beyond the 32-bit integers.
Sqrt(n) == IF n <= 0 THEN 0 ELSE SqrtBetween(n, 0, Min(n + 1, 46341))

\* Vec3.length()
Length(a) == Sqrt(LenSq(a))

-----------------------------------------------------------------------------
(* Bounds of the exploration                                               *)

\* performance.now() runs from 0 to MaxTime milliseconds.
MaxTime == 3

-----------------------------------------------------------------------------
(* Program constants                                                       *)

\* const dt = 1/60 in applyReactionWheelControl and applyCMGControl:
\* multiplying by dt is dividing by InvDt.
InvDt == 60

\* if (totalMomentum.length() > 0.1), in hundredths
WheelDesatTrigger == 10

\* if (maxMomentum < 0.5), in hundredths
WheelDesatDone == 50

\* if (totalMomentumMag > 10), in hundredths
CmgDesatTrigger == 1000

\* if (totalMomentum.length() < 5), in hundredths
\* A deactivation threshold that equals the trigger.
CmgDesatDoneAtTrigger == CmgDesatTrigger

CmgDesatDone == 500

\* const reductionFactor = 0.02, in hundredths
CmgReductionFactor == 2

\* let DOCKING_BOX_SIZE = 0.1, in tenths
DOCKING_BOX_SIZE == 1

\* let DOCKING_ANGLE_THRESHOLD = 3 (degrees)
DOCKING_ANGLE_THRESHOLD == 3

\* const MAX_ANGULAR_SPEED = 1.0 (degrees per second), in half degrees
MAX_ANGULAR_SPEED == 2

\* const MAX_XZ_SPEED = 0.1, in tenths
MAX_XZ_SPEED == 1

\* const MAX_Z_SPEED = 1.0, in tenths
MAX_Z_SPEED == 10

\* The channel keys, in the order of Object.entries(keyToThrusterIndices).
KeyOrder == << "w", "s", "a", "d", "q", "e", "i", "k", "j", "l", "u", "o" >>

ChannelKeys == { KeyOrder[n] : n \in 1..Len(KeyOrder) }

\* ['w','s','a','d','q','e'] : the translation channels
TranslationKeys == { "w", "s", "a", "d", "q", "e" }

RotationKeys == ChannelKeys \ TranslationKeys

-----------------------------------------------------------------------------
(* Configuration (what the loaders leave behind)                           *)

\* The sanitized thruster objects of processThrusterConfig.
\*   1: at the centre of mass, pushing along +z           (translation only)
\*   2: lever arm +x, pushing along +y   (torque +z, and +y translation)
\*   3: lever arm +x, pushing along -y   (torque -z, and -y translation)
ThrusterConfig ==
  << [pos |-> <<0, 0, 0>>, dir |-> <<0, 0, 1>>,  thrust |-> 981,  isp |-> 100],
     [pos |-> <<10, 0, 0>>, dir |-> <<0, 1, 0>>,  thrust |-> 981,  isp |-> 100],
     [pos |-> <<10, 0, 0>>, dir |-> <<0, -1, 0>>, thrust |-> 1962, isp |-> 100] >>

\* The wheel objects of processReactionWheelsConfig: one wheel, spin axis +z,
\* capacity 0.60, torque limit 12.00.
WheelConfig ==
  << [orientation |-> <<0, 0, 1>>, maxAngularMomentum |-> 60, maxTorque |-> 1200] >>

\* A bank of two wheels on the same axis with unequal torque limits, 3.00 and
\* 21.00 (average 12.00).
UnevenWheelConfig ==
  << [orientation |-> <<0, 0, 1>>, maxAngularMomentum |-> 60, maxTorque |-> 300],
     [orientation |-> <<0, 0, 1>>, maxAngularMomentum |-> 60, maxTorque |-> 2100] >>

\* The CMG objects of processCMGsConfig: one CMG, capacity 0.30, torque
\* limit 12.00.
CmgConfig ==
  << [maxAngularMomentum |-> 30, maxTorque |-> 1200] >>

\* A bank of two CMGs with unequal torque limits, 3.00 and 21.00 (average
\* 12.00), capacity 0.10 each.
UnevenCmgConfig ==
  << [maxAngularMomentum |-> 10, maxTorque |-> 300],
     [maxAngularMomentum |-> 10, maxTorque |-> 2100] >>

\* A bank of two equal CMGs, capacity 0.30 and torque limit 12.00 each.
EqualCmgConfig ==
  << [maxAngularMomentum |-> 30, maxTorque |-> 1200],
     [maxAngularMomentum |-> 30, maxTorque |-> 1200] >>

\* A CMG large enough to pass the desaturation trigger of 10: capacity 12.00,
\* torque limit 360.00 (3.00 of momentum per frame at half torque).
LargeCmgConfig ==
  << [maxAngularMomentum |-> 1200, maxTorque |-> 36000] >>

\* The largest total CMG momentum explored (12.06): desaturation is not
\* limited by maxAngularMomentum.
MaxCmgMomentum == 1206

\* spacecraftProperties: dryMass, fuelMass, maxFuelMass (grams here).
FuelConfig == [dryMass |-> 5, fuelMass |-> 3, maxFuelMass |-> 3]

\* spacecraftProperties a configuration may supply: the one above, a vehicle
\* that is all fuel, and a tank filled beyond maxFuelMass.
SpacecraftProperties ==
  { FuelConfig,
    [dryMass |-> 0, fuelMass |-> 3, maxFuelMass |-> 3],
    [dryMass |-> 5, fuelMass |-> 4, maxFuelMass |-> 3] }

\* Firing durations the duration slider may give: 0.001 s and 0.002 s.
FiringDurations == { 1, 2 }

\* The values the torque slider offers (percent of the maximum torque).
TorquePercentages == { 50, 100 }

-----------------------------------------------------------------------------
(* thrusterSetup.js : channel binding                                      *)

\* TRANSLATION_TOLERANCE = cos(65 degrees) = 0.42261..., for a direction
\* component c in ten-thousandths: |c| > tolerance.
ExceedsTranslationTolerance(c) == Abs(c) > 4226

\* A torque deadband that includes the threshold itself.
ExceedsTorqueDeadbandInclusive(c) == Abs(c) >= 250000

\* Math.abs(torque component) > 0.025, for a component c in ten-millionths
\* (a position in thousandths times a direction in ten-thousandths).
ExceedsTorqueDeadband(c) == Abs(c) > 250000

\* The channels the auto-binding branch pushes a thruster onto, for its
\* direction dir (ten-thousandths) and its torque lever.cross(dir)
\* (ten-millionths).
BoundChannels(dir, torque) ==
  (IF ExceedsTranslationTolerance(dir[3])
     THEN { IF dir[3] > 0 THEN "w" ELSE "s" } ELSE {})
  \cup
  (IF ExceedsTranslationTolerance(dir[1])
     THEN { IF dir[1] > 0 THEN "a" ELSE "d" } ELSE {})
  \cup
  (IF ExceedsTranslationTolerance(dir[2])
     THEN { IF dir[2] > 0 THEN "e" ELSE "q" } ELSE {})
  \cup
  (IF ExceedsTorqueDeadband(torque[1])
     THEN { IF torque[1] > 0 THEN "k" ELSE "i" } ELSE {})
  \cup
  (IF ExceedsTorqueDeadband(torque[2])
     THEN { IF torque[2] > 0 THEN "j" ELSE "l" } ELSE {})
  \cup
  (IF ExceedsTorqueDeadband(torque[3])
     THEN { IF torque[3] > 0 THEN "o" ELSE "u" } ELSE {})

\* The channels an auto-bound thruster object (position and unit direction
\* in whole units) is pushed onto.
AutoBindKeys(t) ==
  BoundChannels(VScale(t.dir, 10000), VScale(Cross(t.pos, t.dir), 10000000))

RECURSIVE IndicesBoundTo(_, _, _)
\* The indices pushed onto channel k by thrusters i, i+1, ... of cfg, in order.
IndicesBoundTo(cfg, k, i) ==
  IF i > Len(cfg) THEN << >>
  ELSE (IF k \in AutoBindKeys(cfg[i]) THEN << i >> ELSE << >>)
       \o IndicesBoundTo(cfg, k, i + 1)

\* keyToThrusterIndices after processThrusterConfig ran on an empty map.
ProcessThrusterConfig(cfg) == [ k \in ChannelKeys |-> IndicesBoundTo(cfg, k, 1) ]

\* keyToThrusterIndices after processThrusterConfig ran on the map bindings:
\* every bound index is pushed onto the list that is already there.
ProcessThrusterConfigOnto(bindings, cfg) ==
  [ k \in ChannelKeys |-> bindings[k] \o IndicesBoundTo(cfg, k, 1) ]

\* Defaulting to 50N.
DefaultThrust == 50

\* Defaulting to 300s.
DefaultIsp == 300

\* parseFloat of a configured value: a number gives itself, anything that
\* does not start with a number gives NaN.
ParseFloat(raw) ==
  IF raw.kind = "number" THEN [ nan |-> FALSE, value |-> raw.value ]
  ELSE [ nan |-> TRUE, value |-> 0 ]

\* The sanitization with only the isNaN test.
SanitizeNaNOnly(raw, default) ==
  IF ParseFloat(raw).nan THEN default ELSE ParseFloat(raw).value

\* let x = parseFloat(raw); if (isNaN(x) || x <= 0) x = default
Sanitize(raw, default) ==
  IF ParseFloat(raw).nan \/ ParseFloat(raw).value <= 0 THEN default
  ELSE ParseFloat(raw).value

\* The thruster objects processThrusterConfig returns for a configuration
\* (centerOfMass at the origin, directions of unit length).
SanitizedThrusters(config) ==
  [ i \in 1..Len(config) |->
      [ pos |-> config[i].position, dir |-> config[i].direction,
        thrust |-> Sanitize(config[i].thrust, DefaultThrust),
        isp |-> Sanitize(config[i].isp, DefaultIsp) ] ]

Number(n) == [ kind |-> "number", value |-> n ]

NotANumber == [ kind |-> "text", value |-> 0 ]

\* Thruster configurations as a file may hold them: the geometry of
\* ThrusterConfig, with thruster 3 carrying valid numbers, a zero or negative
\* thrust or isp, or text in place of a number.
RawThrusterConfigs ==
  { [ i \in 1..Len(ThrusterConfig) |->
        [ position |-> ThrusterConfig[i].pos, direction |-> ThrusterConfig[i].dir,
          thrust |-> IF i = 3 THEN n[1] ELSE Number(ThrusterConfig[i].thrust),
          isp |-> IF i = 3 THEN n[2] ELSE Number(ThrusterConfig[i].isp) ] ] :
      n \in { << Number(1962), Number(100) >>, << Number(0), Number(100) >>,
              << NotANumber, Number(-5) >>, << Number(-3), NotANumber >>,
              << Number(1962), Number(0) >> } }

\* The longest binding list explored (one list entry per load for the
\* geometry of ThrusterConfig).
MaxBindings == 2

\* Vec3.unit() of a non-zero vector, in ten-thousandths (components of raw
\* up to 46 in absolute value).
UnitDirection(raw) == VQuot(VScale(raw, 10000000), Length(VScale(raw, 1000)))

\* A label is the sequence of its characters.  String.toLowerCase on one
\* character (the upper-case letters that occur in the labels explored).
ToLowerCase(c) ==
  IF c = "W" THEN "w" ELSE IF c = "U" THEN "u" ELSE IF c = "X" THEN "x" ELSE c

RECURSIVE TrimStart(_)
TrimStart(label) ==
  IF label # << >> /\ Head(label) = " " THEN TrimStart(Tail(label)) ELSE label

RECURSIVE TrimEnd(_)
TrimEnd(label) ==
  IF label # << >> /\ label[Len(label)] = " "
  THEN TrimEnd(SubSeq(label, 1, Len(label) - 1)) ELSE label

\* key.toLowerCase().trim()
NormalizedKey(label) ==
  TrimEnd(TrimStart([ n \in 1..Len(label) |-> ToLowerCase(label[n]) ]))

\* The lower-case property names an object literal inherits from
\* Object.prototype: keyToThrusterIndices[name] is truthy and has no push.
InheritedNames ==
  { << "c", "o", "n", "s", "t", "r", "u", "c", "t", "o", "r" >>,
    << "_", "_", "p", "r", "o", "t", "o", "_", "_" >> }

\* The running state of config.thrusters.map is [bindings, thrown]: the
\* binding map, and whether a TypeError left the callback.
PushOnto(st, channels, i) ==
  [ st EXCEPT !.bindings =
      [ k \in ChannelKeys |-> IF k \in channels THEN Append(@[k], i) ELSE @[k] ] ]

RECURSIVE PushCustomKeybinds(_, _, _, _)
\* customKeybinds.forEach(key => ...), from label n on, for thruster i.
PushCustomKeybinds(st, labels, i, n) ==
  IF n > Len(labels) \/ st.thrown THEN st
  ELSE IF NormalizedKey(labels[n]) = << >> THEN PushCustomKeybinds(st, labels, i, n + 1)
  ELSE IF Len(NormalizedKey(labels[n])) = 1 /\ NormalizedKey(labels[n])[1] \in ChannelKeys
  THEN PushCustomKeybinds(PushOnto(st, { NormalizedKey(labels[n])[1] }, i),
                          labels, i, n + 1)
  ELSE IF NormalizedKey(labels[n]) \in InheritedNames
  THEN [ st EXCEPT !.thrown = TRUE ]
  ELSE PushCustomKeybinds(st, labels, i, n + 1)

\* The keybind mapping of one configured thruster t (position in
\* thousandths, centerOfMass at the origin):
\*   autoBind = t.autoBind !== false
\*   customKeybinds = Array.isArray(t.keybind) ? t.keybind : []
BindThruster(st, t, i) ==
  IF t.autoBind # "false"
  THEN PushOnto(st, BoundChannels(UnitDirection(t.direction),
                                  Cross(t.position, UnitDirection(t.direction))), i)
  ELSE PushCustomKeybinds(st, IF t.keybind.isArray THEN t.keybind.labels ELSE << >>,
                          i, 1)

RECURSIVE BindThrusters(_, _, _)
\* config.thrusters.map((t, i) => ...), from thruster i on.
BindThrusters(st, config, i) ==
  IF i > Len(config) \/ st.thrown THEN st
  ELSE BindThrusters(BindThruster(st, config[i], i), config, i + 1)

\* A thruster entry of a configuration file.  autoBind is "true", "false" or
\* "absent"; keybind is an array of labels, or is no array.
ConfiguredThruster(position, direction, autoBind, keybind) ==
  [ position |-> position, direction |-> direction,
    thrust |-> Number(50), isp |-> Number(300),
    autoBind |-> autoBind, keybind |-> keybind ]

Labels(labels) == [ isArray |-> TRUE, labels |-> labels ]

NoArray == [ isArray |-> FALSE, labels |-> << >> ]

\* Directions as configured (any length): the six axis directions, and
\* directions whose second component is just above (7 : 15, 0.4229) and
\* just below (13 : 28, 0.4211) the translation tolerance after unit().
Directions ==
  { <<0, 0, 1>>, <<0, 0, -1>>, <<1, 0, 0>>, <<-1, 0, 0>>, <<0, 1, 0>>, <<0, -1, 0>>,
    <<0, 7, 15>>, <<0, 13, 28>>, <<0, -7, 15>>, <<7, 0, -15>>, <<1, 1, 1>> }

\* Lever arms in thousandths: none, at the torque deadband (0.025), just
\* beyond it (0.026) on either side, and long ones.
Positions ==
  { <<0, 0, 0>>, <<25, 0, 0>>, <<26, 0, 0>>, <<-26, 0, 0>>, <<0, 26, 0>>,
    <<0, -25, 0>>, <<0, 0, 26>>, <<1000, 0, 0>>, <<0, 0, -1000>>,
    <<0, 1000, 0>>, <<-500, 500, 0>> }

\* Keybind entries as a file may hold them.
Keybinds ==
  { NoArray, Labels(<< >>), Labels(<< << "w" >> >>),
    Labels(<< << " ", "U", " " >>, << "W" >> >>),
    Labels(<< << "x" >>, << >>, << " " >>, << "o" >> >>),
    Labels(<< << "w", "s" >>, << "e" >> >>),
    Labels(<< << "a" >>, << "c", "o", "n", "s", "t", "r", "u", "c", "t", "o", "r" >>,
              << "d" >> >>) }

\* The configurations explored: one thruster, auto-bound over all geometries,
\* and with every autoBind value and keybind entry at two geometries.
GeometryConfigs ==
  { << ConfiguredThruster(position, direction, "absent", NoArray) >> :
      position \in Positions, direction \in Directions }
  \cup
  { << ConfiguredThruster(position, <<0, 1, 0>>, autoBind, keybind) >> :
      position \in { <<0, 0, 0>>, <<1000, 0, 0>> },
      autoBind \in { "true", "false", "absent" }, keybind \in Keybinds }

-----------------------------------------------------------------------------
(* State                                                                   *)

\* let undockTime = null; let pausedStartTime = null
null == -1

VARIABLES
  now,                        \* performance.now()
  oldTime,                    \* THREE.Clock: the time of the last getDelta()
  keys,                       \* keys{} : channel keys held (normal mode)
  backtickPressed,
  fineControlMode,
  fineControlKeys,
  fineControlProcessedKeys,
  fineControlKeyStartTimes,   \* channel key -> start time, null when absent
  timedFiringEnabled,
  firingDuration,             \* milliseconds
  torquePercentage,
  paused,
  isDocked,
  canDock,
  hasLeftDockingBoxOnce,
  undockTime,
  pausedStartTime,
  accumulatedPausedTime,
  lastDockedTime,
  position,                   \* satBody.position - initialPosition
  angleDiff,                  \* angle of satBody.quaternion to initialOrientation
  velocity,                   \* satBody.velocity
  angularVelocity,            \* satBody.angularVelocity
  dryMass,
  fuelMass,
  maxFuelMass,
  bodyMass,                   \* spacecraftBody.mass
  bodyInvMass,                \* spacecraftBody.invMass, in millionths
  bodyInertia,                \* spacecraftBody.inertia (Ixx, Iyy, Izz)
  bodyInvInertia,             \* spacecraftBody.invInertia, in thousandths
  thrusters,                  \* the thruster objects (with their active flag)
  keyToThrusterIndices,
  mode,                       \* attitudeControl.mode
  loaded,                     \* attitudeControl.loaded
  reactionWheels,             \* the wheel objects (with currentAngularMomentum)
  cmgs,                       \* the CMG objects (with currentAngularMomentum)
  desaturationActive,
  dockingStatus,              \* the result of isInDockingZone() in the last frame
  forces,                     \* applyLocalForce calls of the last operation
  torques,                    \* applyTorque calls of the last operation (local frame)
  debits,                     \* consumeFuel amounts of the last operation
  wheelTorques,               \* actualTorqueApplied per wheel in the last operation
  refused,                    \* thrusters whose firing the last operation refused
  leftBoxSinceUndock,         \* history: a frame since the last undock saw inBox false
  unpausedSinceUndock         \* history: milliseconds spent unpaused since the last undock

inputVars ==
  << keys, backtickPressed, fineControlMode, fineControlKeys,
     fineControlProcessedKeys, fineControlKeyStartTimes, timedFiringEnabled,
     firingDuration, torquePercentage >>

clockVars ==
  << undockTime, pausedStartTime, accumulatedPausedTime, lastDockedTime >>

dockVars == << paused, isDocked, canDock, hasLeftDockingBoxOnce >>

bodyVars == << position, angleDiff, velocity, angularVelocity >>

fuelVars ==
  << dryMass, fuelMass, maxFuelMass, bodyMass, bodyInvMass, bodyInertia,
     bodyInvInertia >>

actuatorVars == << mode, loaded, reactionWheels, cmgs, desaturationActive >>

logVars == << forces, torques, debits, wheelTorques, refused >>

historyVars == << leftBoxSinceUndock, unpausedSinceUndock >>

vars ==
  << now, oldTime, inputVars, clockVars, dockVars, bodyVars, fuelVars,
     thrusters, keyToThrusterIndices, actuatorVars, dockingStatus, logVars,
     historyVars >>

\* Indices of a sequence.
Idx(s) == 1..Len(s)

NoWheelTorques == [ i \in Idx(reactionWheels) |-> 0 ]

\* An operation that applies no force, no torque and no fuel debit.
NoEffects ==
  /\ forces' = << >>
  /\ torques' = << >>
  /\ debits' = << >>
  /\ wheelTorques' = NoWheelTorques
  /\ refused' = << >>

-----------------------------------------------------------------------------
(* spacecraftManager.js : the fuel model                                   *)

\* consumeFuel without the floor at zero.
consumeFuelUnclamped(fuel, amount) == fuel - amount

\* consumeFuel: the fuel left after a debit.
consumeFuel(fuel, amount) == Max(0, fuel - amount)

\* spacecraftBody.invMass = totalMass > 0 ? 1 / totalMass : 0   (millionths)
\* updateSatelliteMass without the guard against an empty vehicle.
InvMassUnguarded(totalMass) == Quot(1000000, Max(totalMass, 1))

InvMass(totalMass) == IF totalMass > 0 THEN Quot(1000000, totalMass) ELSE 0

\* The inertia cannon-es computes for the body's box shape (half extents 1)
\* from its mass: mass / 12 * (2 * 2 + 2 * 2) about every axis.
ShapeInertia(totalMass) ==
  << Quot(8 * totalMass, 12), Quot(8 * totalMass, 12), Quot(8 * totalMass, 12) >>

\* invInertia.set(x > 0 ? 1 / x : 0, ...), in thousandths
InvInertia(inertia) ==
  [ n \in 1..3 |-> IF inertia[n] > 0 THEN Quot(1000, inertia[n]) ELSE 0 ]

\* The mass properties of spacecraftBody.
Body ==
  [ mass |-> bodyMass, invMass |-> bodyInvMass,
    inertia |-> bodyInertia, invInertia |-> bodyInvInertia ]

\* updateSatelliteMass with the call of spacecraftBody.updateMassProperties(),
\* which recomputes the inertia from the shape.
updateSatelliteMassRecomputing(body, totalMass) ==
  [ mass |-> totalMass, invMass |-> InvMass(totalMass),
    inertia |-> ShapeInertia(totalMass),
    invInertia |-> InvInertia(ShapeInertia(totalMass)) ]

\* updateSatelliteMass(): the body's mass properties for the new total mass.
updateSatelliteMass(body, totalMass) ==
  [ body EXCEPT !.mass = totalMass, !.invMass = InvMass(totalMass) ]

\* fuelConsumptionRate * dt = thrust / (isp * 9.81) * dt : kilograms for dt in
\* seconds, which is grams for dt in milliseconds.
FuelConsumed(t, dt) == Quot(t.thrust * dt * 100, t.isp * 981)

\* !t.thrust || !t.isp || t.isp <= 0   (the values here are numbers, never NaN)
InvalidThruster(t) == t.thrust = 0 \/ t.isp = 0 \/ t.isp <= 0

\* t.dir.scale(t.thrust * fraction), the fraction in tenths
ThrusterForce(t, tenths) == VScale(t.dir, t.thrust * tenths)

\* One pass of the body of indices.forEach(i => ...) in animate.  st is the
\* running state [fuelMass, thrusters, forces, debits, refused].
\* A firing without the look at the tank.
FireThrusterWithoutFuelCheck(st, i, dt) ==
  LET t == st.thrusters[i]
  IN  IF InvalidThruster(t)
      THEN [ st EXCEPT !.thrusters[i].active = FALSE,
                       !.refused = Append(@, i) ]
      ELSE LET fuelConsumed == FuelConsumed(t, dt)
               remainingFuel == consumeFuel(st.fuelMass, fuelConsumed)
           IN  [ st EXCEPT
                   !.forces = Append(@, [ thruster |-> i, at |-> t.pos,
                                          force |-> ThrusterForce(t, 10) ]),
                   !.debits = Append(@, fuelConsumed),
                   !.fuelMass = remainingFuel,
                   !.thrusters[i].active = (remainingFuel > 0) ]

FireThruster(st, i, dt) ==
  LET t == st.thrusters[i]
  IN  IF st.fuelMass <= 0 \/ InvalidThruster(t)
      THEN [ st EXCEPT !.thrusters[i].active = FALSE,
                       !.refused = Append(@, i) ]
      ELSE LET fuelConsumed == FuelConsumed(t, dt)
               remainingFuel == consumeFuel(st.fuelMass, fuelConsumed)
           IN  [ st EXCEPT
                   !.forces = Append(@, [ thruster |-> i, at |-> t.pos,
                                          force |-> ThrusterForce(t, 10) ]),
                   !.debits = Append(@, fuelConsumed),
                   !.fuelMass = remainingFuel,
                   !.thrusters[i].active = (remainingFuel > 0) ]

RECURSIVE FireAll(_, _, _)
\* indices.forEach over a list of thruster indices.
FireAll(st, indices, dt) ==
  IF indices = << >> THEN st
  ELSE FireAll(FireThruster(st, Head(indices), dt), Tail(indices), dt)

RECURSIVE FiringList(_, _, _, _)
\* Object.entries(keyToThrusterIndices).forEach: the indices of the pressed
\* channels of one class, in channel order, from channel number n on.
FiringList(bindings, pressed, class, n) ==
  IF n > Len(KeyOrder) THEN << >>
  ELSE (IF KeyOrder[n] \in pressed /\ KeyOrder[n] \in class
          THEN bindings[KeyOrder[n]] ELSE << >>)
       \o FiringList(bindings, pressed, class, n + 1)

-----------------------------------------------------------------------------
(* attitudeControl.js : reaction wheels                                    *)

\* actualTorqueApplied without the limit by the remaining momentum capacity.
WheelActualTorqueUnclamped(wheel, torque) == Dot(wheel.orientation, torque)

\* actualTorqueApplied of one wheel for a requested torque vector.
WheelActualTorque(wheel, torque) ==
  LET requestedTorqueAlongWheel == Dot(wheel.orientation, torque)
  IN  IF requestedTorqueAlongWheel > 0
      THEN LET momentumCapacity ==
                 wheel.maxAngularMomentum - wheel.currentAngularMomentum
               maxPossibleTorque == momentumCapacity * InvDt
           IN  Min(requestedTorqueAlongWheel, maxPossibleTorque)
      ELSE IF requestedTorqueAlongWheel < 0
      THEN LET momentumCapacity ==
                 wheel.currentAngularMomentum - (-wheel.maxAngularMomentum)
               maxPossibleTorque == momentumCapacity * InvDt
           IN  Max(requestedTorqueAlongWheel, -maxPossibleTorque)
      ELSE 0

\* wheel.currentAngularMomentum += actualTorqueApplied * dt
WheelAfterTorque(wheel, actualTorqueApplied) ==
  [ wheel EXCEPT !.currentAngularMomentum = @ + Quot(actualTorqueApplied, InvDt) ]

\* A reaction torque with the sign of the wheel torque.
WheelReactionTorqueSameSign(wheel, actualTorqueApplied) ==
  VScale(wheel.orientation, actualTorqueApplied)

\* reactionTorque = wheelAxis.scale(-actualTorqueApplied)
WheelReactionTorque(wheel, actualTorqueApplied) ==
  VScale(wheel.orientation, -actualTorqueApplied)

\* applyReactionWheelControl: the wheels afterwards, the torque applied to each
\* wheel, and the torques applied to the body.
applyReactionWheelControl(wheels, torque) ==
  LET actual == [ i \in Idx(wheels) |-> WheelActualTorque(wheels[i], torque) ]
  IN  [ wheels |-> [ i \in Idx(wheels) |-> WheelAfterTorque(wheels[i], actual[i]) ],
        wheelTorques |-> actual,
        torques |-> [ i \in Idx(wheels) |->
                        [ by |-> "wheel", index |-> i,
                          torque |-> WheelReactionTorque(wheels[i], actual[i]) ] ] ]

-----------------------------------------------------------------------------
(* attitudeControl.js : CMGs                                               *)

\* actualTorque without the clamp to maxTorque.
CmgActualTorqueUnclamped(cmg, torque) ==
  LET current == cmg.currentAngularMomentum
      currentMomentumMag == Length(current)
      desiredDeltaMomentum == VQuot(VScale(torque, -1), InvDt)
      dotProduct == Dot(current, desiredDeltaMomentum)
      atMax == LenSq(current) >= cmg.maxAngularMomentum * cmg.maxAngularMomentum
      availableMomentum == cmg.maxAngularMomentum - currentMomentumMag
  IN  IF dotProduct > 0 /\ atMax
      THEN VQuot(VScale(torque, availableMomentum * 100), dotProduct)
      ELSE torque

\* actualTorque of one CMG for a requested torque vector.
CmgActualTorque(cmg, torque) ==
  LET current == cmg.currentAngularMomentum
      currentMomentumMag == Length(current)
      desiredDeltaMomentum == VQuot(VScale(torque, -1), InvDt)
      \* a product of two hundredths: ten-thousandths
      dotProduct == Dot(current, desiredDeltaMomentum)
      atMax == LenSq(current) >= cmg.maxAngularMomentum * cmg.maxAngularMomentum
      availableMomentum == cmg.maxAngularMomentum - currentMomentumMag
      \* actualTorque.scale(availableMomentum / dotProduct)
      scaled ==
        IF dotProduct > 0 /\ atMax
        THEN VQuot(VScale(torque, availableMomentum * 100), dotProduct)
        ELSE torque
  IN  IF LenSq(scaled) > cmg.maxTorque * cmg.maxTorque
      THEN VQuot(VScale(scaled, cmg.maxTorque), Length(scaled))
      ELSE scaled

\* A momentum update with the sign of the torque.
CmgAfterTorqueSameSign(cmg, actualTorque) ==
  [ cmg EXCEPT !.currentAngularMomentum = VAdd(@, VQuot(actualTorque, InvDt)) ]

\* cmg.currentAngularMomentum += actualTorque * (dt * -1)
CmgAfterTorque(cmg, actualTorque) ==
  [ cmg EXCEPT !.currentAngularMomentum =
                 VAdd(@, VQuot(VScale(actualTorque, -1), InvDt)) ]

\* A CMG control that hands every CMG its share torque / N of the request.
applyCMGControlShared(cmgBank, torque) ==
  LET actual == [ i \in Idx(cmgBank) |->
                    CmgActualTorque(cmgBank[i], VQuot(torque, Len(cmgBank))) ]
  IN  [ cmgs |-> [ i \in Idx(cmgBank) |-> CmgAfterTorque(cmgBank[i], actual[i]) ],
        torques |-> [ i \in Idx(cmgBank) |->
                        [ by |-> "cmg", index |-> i, torque |-> actual[i] ] ] ]

\* applyCMGControl
applyCMGControl(cmgBank, torque) ==
  LET actual == [ i \in Idx(cmgBank) |-> CmgActualTorque(cmgBank[i], torque) ]
  IN  [ cmgs |-> [ i \in Idx(cmgBank) |-> CmgAfterTorque(cmgBank[i], actual[i]) ],
        torques |-> [ i \in Idx(cmgBank) |->
                        [ by |-> "cmg", index |-> i, torque |-> actual[i] ] ] ]

\* applyControlTorque: dispatch on the mode.  The result is the actuator state
\* [wheels, cmgs] and what was applied [wheelTorques, torques].
applyControlTorque(m, wheels, cmgBank, torque) ==
  IF m = "reactionwheels"
  THEN LET r == applyReactionWheelControl(wheels, torque)
       IN  [ wheels |-> r.wheels, cmgs |-> cmgBank,
             wheelTorques |-> r.wheelTorques, torques |-> r.torques ]
  ELSE IF m = "cmgs"
  THEN LET r == applyCMGControl(cmgBank, torque)
       IN  [ wheels |-> wheels, cmgs |-> r.cmgs,
             wheelTorques |-> [ i \in Idx(wheels) |-> 0 ], torques |-> r.torques ]
  ELSE [ wheels |-> wheels, cmgs |-> cmgBank,
         wheelTorques |-> [ i \in Idx(wheels) |-> 0 ], torques |-> << >> ]

-----------------------------------------------------------------------------
(* attitudeControl.js : desaturation                                       *)

RECURSIVE SumVectors(_, _)
\* totalMomentum.vadd over a sequence of vectors, from index n on.
SumVectors(vs, n) ==
  IF n > Len(vs) THEN Zero3 ELSE VAdd(vs[n], SumVectors(vs, n + 1))

\* Sum of wheel.orientation.scale(wheel.currentAngularMomentum).
TotalWheelMomentum(wheels) ==
  SumVectors([ i \in Idx(wheels) |->
                 VScale(wheels[i].orientation, wheels[i].currentAngularMomentum) ], 1)

\* Sum of cmg.currentAngularMomentum.
TotalCmgMomentum(cmgBank) ==
  SumVectors([ i \in Idx(cmgBank) |-> cmgBank[i].currentAngularMomentum ], 1)

\* torqueDirection.dot(opposing) for opposing = totalMomentum.unit().scale(-1),
\* times the length of totalMomentum.
AlignmentTimesLength(t, totalMomentum) ==
  Dot(Cross(t.pos, t.dir), VScale(totalMomentum, -1))

\* alignment > 0.5
Aligned(t, totalMomentum) ==
  LET a == AlignmentTimesLength(t, totalMomentum)
  IN  a > 0 /\ 4 * a * a > LenSq(totalMomentum)

\* alignment (whole units; exact when totalMomentum lies along an axis)
Alignment(t, totalMomentum) ==
  Quot(AlignmentTimesLength(t, totalMomentum), Length(totalMomentum))

\* The wheel bleed without the clamp to [-maxAngularMomentum, maxAngularMomentum].
WheelBleedUnclamped(wheel, alignment) ==
  [ wheel EXCEPT !.currentAngularMomentum =
      @ - Length(VScale(wheel.orientation, alignment)) ]

\* The bleed of one wheel for one firing thruster:
\*   reduction = wheel.orientation.scale(alignment * 0.01)
\*   newMomentum = wheel.currentAngularMomentum - reduction.length()
\*   clamped to [-maxAngularMomentum, maxAngularMomentum]
WheelBleed(wheel, alignment) ==
  LET reduction == VScale(wheel.orientation, alignment)
      newMomentum == wheel.currentAngularMomentum - Length(reduction)
  IN  [ wheel EXCEPT !.currentAngularMomentum =
          Max(-wheel.maxAngularMomentum, Min(wheel.maxAngularMomentum, newMomentum)) ]

\* The bleed of one CMG for one firing thruster:
\*   reduction = momentumDir.scale(0.02), momentumDir = totalMomentum.unit().scale(-1)
\*   cmg.currentAngularMomentum.vsub(reduction, cmg.currentAngularMomentum)
CmgBleed(cmg, totalMomentum) ==
  LET reduction ==
        VQuot(VScale(totalMomentum, -CmgReductionFactor), Length(totalMomentum))
  IN  [ cmg EXCEPT !.currentAngularMomentum = VSub(@, reduction) ]

RECURSIVE DesaturateWheels(_, _, _, _)
\* thrusters.forEach of the reaction-wheel branch, from thruster n on.
\* st is the running state [wheels, forces].
DesaturateWheels(st, thr, totalMomentum, n) ==
  IF n > Len(thr) THEN st
  ELSE IF Aligned(thr[n], totalMomentum)
  THEN DesaturateWheels(
         [ wheels |-> [ i \in Idx(st.wheels) |->
                          WheelBleed(st.wheels[i], Alignment(thr[n], totalMomentum)) ],
           forces |-> Append(st.forces, [ thruster |-> n, at |-> thr[n].pos,
                                          force |-> ThrusterForce(thr[n], 5) ]) ],
         thr, totalMomentum, n + 1)
  ELSE DesaturateWheels(st, thr, totalMomentum, n + 1)

RECURSIVE DesaturateCmgs(_, _, _, _)
\* thrusters.forEach of the CMG branch, from thruster n on.
\* st is the running state [cmgs, forces].
DesaturateCmgs(st, thr, totalMomentum, n) ==
  IF n > Len(thr) THEN st
  ELSE IF Aligned(thr[n], totalMomentum)
  THEN DesaturateCmgs(
         [ cmgs |-> [ i \in Idx(st.cmgs) |-> CmgBleed(st.cmgs[i], totalMomentum) ],
           forces |-> Append(st.forces, [ thruster |-> n, at |-> thr[n].pos,
                                          force |-> ThrusterForce(thr[n], 3) ]) ],
         thr, totalMomentum, n + 1)
  ELSE DesaturateCmgs(st, thr, totalMomentum, n + 1)

RECURSIVE PeakWheelMomentum(_, _)
\* maxMomentum = max over the wheels of |currentAngularMomentum|, from wheel n on
PeakWheelMomentum(wheels, n) ==
  IF n > Len(wheels) THEN 0
  ELSE Max(Abs(wheels[n].currentAngularMomentum), PeakWheelMomentum(wheels, n + 1))

\* desaturateWithThrusters: the actuator state afterwards
\* [wheels, cmgs, desaturationActive] and the forces applied.
desaturateWithThrusters(m, wheels, cmgBank, active, thr) ==
  IF m = "reactionwheels"
  THEN LET totalMomentum == TotalWheelMomentum(wheels)
           r == IF LenSq(totalMomentum) > WheelDesatTrigger * WheelDesatTrigger
                THEN DesaturateWheels([ wheels |-> wheels, forces |-> << >> ],
                                      thr, totalMomentum, 1)
                ELSE [ wheels |-> wheels, forces |-> << >> ]
       IN  [ wheels |-> r.wheels, cmgs |-> cmgBank, forces |-> r.forces,
             desaturationActive |-> ~(PeakWheelMomentum(r.wheels, 1) < WheelDesatDone) ]
  ELSE IF m = "cmgs"
  THEN LET totalMomentum == TotalCmgMomentum(cmgBank)
           r == IF LenSq(totalMomentum) > CmgDesatTrigger * CmgDesatTrigger
                THEN DesaturateCmgs([ cmgs |-> cmgBank, forces |-> << >> ],
                                    thr, totalMomentum, 1)
                ELSE [ cmgs |-> cmgBank, forces |-> << >> ]
           after == TotalCmgMomentum(r.cmgs)
       IN  [ wheels |-> wheels, cmgs |-> r.cmgs, forces |-> r.forces,
             desaturationActive |-> ~(LenSq(after) < CmgDesatDone * CmgDesatDone) ]
  ELSE [ wheels |-> wheels, cmgs |-> cmgBank, forces |-> << >>,
         desaturationActive |-> active ]

\* toggleMode
\* toggleMode without the look at the CMG bank.
toggleModeIgnoringBank(m, isLoaded, cmgBank) ==
  IF ~isLoaded THEN m
  ELSE IF m = "thrusters" THEN "reactionwheels"
  ELSE IF m = "reactionwheels" THEN "cmgs"
  ELSE "thrusters"

toggleMode(m, isLoaded, cmgBank) ==
  IF ~isLoaded THEN m
  ELSE IF m = "thrusters" THEN "reactionwheels"
  ELSE IF m = "reactionwheels" /\ Len(cmgBank) > 0 THEN "cmgs"
  ELSE "thrusters"

-----------------------------------------------------------------------------
(* spacecraftManager.js : docking criteria and the clock                   *)

\* isInDockingZone() on a pose: the four criteria.
isInDockingZone(positionDiff, angle, v, w) ==
  [ inBox |-> /\ Abs(positionDiff[1]) <= DOCKING_BOX_SIZE
              /\ Abs(positionDiff[2]) <= DOCKING_BOX_SIZE
              /\ Abs(positionDiff[3]) <= DOCKING_BOX_SIZE,
    inAngle |-> angle <= DOCKING_ANGLE_THRESHOLD,
    withinSpeedLimits |->
      /\ v[1] * v[1] + v[3] * v[3] <= MAX_XZ_SPEED * MAX_XZ_SPEED
      /\ v[3] <= MAX_Z_SPEED,
    withinAngularSpeedLimit |-> LenSq(w) <= MAX_ANGULAR_SPEED * MAX_ANGULAR_SPEED ]

\* A docking condition without the canDock guard.
DockingConditionUnguarded(docked, mayDock, hasLeft, status) ==
  /\ ~docked
  /\ hasLeft
  /\ status.inBox
  /\ status.inAngle
  /\ status.withinSpeedLimits
  /\ status.withinAngularSpeedLimit

\* A docking condition that also wants the frame before to have been in the box.
DockingConditionSecondFrame(docked, mayDock, hasLeft, status) ==
  /\ ~docked
  /\ mayDock
  /\ hasLeft
  /\ dockingStatus.inBox
  /\ status.inBox
  /\ status.inAngle
  /\ status.withinSpeedLimits
  /\ status.withinAngularSpeedLimit

\* The condition of the UNDOCKED -> DOCKED transition in animate.
DockingCondition(docked, mayDock, hasLeft, status) ==
  /\ ~docked
  /\ mayDock
  /\ hasLeft
  /\ status.inBox
  /\ status.inAngle
  /\ status.withinSpeedLimits
  /\ status.withinAngularSpeedLimit

\* currentTime - undockTime - accumulatedPausedTime, with currentTime the start
\* of the pause while paused (updateClock, and lastDockedTime in animate).
\* The elapsed time without the stop at the start of a pause.
ElapsedSinceRunning(isPaused, pauseStart, undock, accumulated, t) ==
  t - undock - accumulated

ElapsedSince(isPaused, pauseStart, undock, accumulated, t) ==
  (IF isPaused /\ pauseStart # null THEN pauseStart ELSE t) - undock - accumulated

\* elapsedMilliseconds of updateClock in the current state (not docked).
elapsedMilliseconds ==
  ElapsedSince(paused, pausedStartTime, undockTime, accumulatedPausedTime, now)

\* The milliseconds updateClock puts on the clock display.
displayedElapsed ==
  IF undockTime = null THEN 0
  ELSE IF isDocked THEN lastDockedTime
  ELSE elapsedMilliseconds

\* accumulatedPausedTime after the pause toggle ran while paused.
AccumulateOnResume(accumulated, pauseStart, t) ==
  IF pauseStart # null THEN accumulated + (t - pauseStart) ELSE accumulated

-----------------------------------------------------------------------------
(* The rigid body (cannon-es).  world.step() integrates the body and       *)
(* resolves its contacts with the hulls and the docking port; the model    *)
(* lets a step end in any of the poses below.                              *)

Kinematics ==
  { \* at the reference pose, at rest
    [ position |-> <<0, 0, 0>>,  angleDiff |-> 0, velocity |-> <<0, 0, 0>>,
      angularVelocity |-> <<0, 0, 0>> ],
    \* outside the box
    [ position |-> <<0, 0, -2>>, angleDiff |-> 0, velocity |-> <<0, 0, -1>>,
      angularVelocity |-> <<0, 0, 0>> ],
    \* in the box, all criteria met, still moving
    [ position |-> <<1, 0, -1>>, angleDiff |-> 3, velocity |-> <<0, 3, 1>>,
      angularVelocity |-> <<0, 2, 0>> ],
    \* in the box, too fast
    [ position |-> <<0, 1, 0>>,  angleDiff |-> 0, velocity |-> <<2, 0, 0>>,
      angularVelocity |-> <<0, 0, 0>> ],
    \* in the box, turned too far and spinning too fast
    [ position |-> <<0, 0, 1>>,  angleDiff |-> 4, velocity |-> <<0, 0, 0>>,
      angularVelocity |-> <<0, 0, 3>> ] }

-----------------------------------------------------------------------------
(* Initial state: after initSimulation, the loaders and main()             *)

\* The state after start-up with the given thruster objects, actuator
\* configurations and spacecraftProperties.
InitWith(thrusterObjects, wheelConfig, cmgConfig, properties) ==
  /\ now = 0
  /\ oldTime = null
  /\ keys = {}
  /\ backtickPressed = FALSE
  /\ fineControlMode = FALSE
  /\ fineControlKeys = {}
  /\ fineControlProcessedKeys = {}
  /\ fineControlKeyStartTimes = [ k \in ChannelKeys |-> null ]
  /\ timedFiringEnabled = FALSE
  /\ firingDuration = 100
  /\ torquePercentage = 50
  /\ paused = TRUE
  /\ isDocked = TRUE
  /\ canDock = FALSE
  /\ hasLeftDockingBoxOnce = FALSE
  /\ undockTime = null
  /\ pausedStartTime = null
  /\ accumulatedPausedTime = 0
  /\ lastDockedTime = 0
  /\ position = Zero3
  /\ angleDiff = 0
  /\ velocity = Zero3
  /\ angularVelocity = Zero3
  /\ dryMass = properties.dryMass
  /\ fuelMass = properties.fuelMass
  /\ maxFuelMass = properties.maxFuelMass
  /\ bodyMass = properties.dryMass + properties.fuelMass
  /\ bodyInvMass = InvMass(properties.dryMass + properties.fuelMass)
  /\ bodyInertia = ShapeInertia(properties.dryMass + properties.fuelMass)
  /\ bodyInvInertia = InvInertia(ShapeInertia(properties.dryMass + properties.fuelMass))
  /\ thrusters = [ i \in Idx(thrusterObjects) |->
                     [ pos |-> thrusterObjects[i].pos, dir |-> thrusterObjects[i].dir,
                       thrust |-> thrusterObjects[i].thrust,
                       isp |-> thrusterObjects[i].isp, active |-> FALSE ] ]
  /\ keyToThrusterIndices = ProcessThrusterConfig(thrusterObjects)
  /\ mode = "thrusters"
  /\ loaded = (Len(wheelConfig) > 0 \/ Len(cmgConfig) > 0)
  /\ reactionWheels = [ i \in Idx(wheelConfig) |->
                          [ orientation |-> wheelConfig[i].orientation,
                            maxAngularMomentum |-> wheelConfig[i].maxAngularMomentum,
                            maxTorque |-> wheelConfig[i].maxTorque,
                            currentAngularMomentum |-> 0 ] ]
  /\ cmgs = [ i \in Idx(cmgConfig) |->
                [ maxAngularMomentum |-> cmgConfig[i].maxAngularMomentum,
                  maxTorque |-> cmgConfig[i].maxTorque,
                  currentAngularMomentum |-> Zero3 ] ]
  /\ desaturationActive = FALSE
  /\ dockingStatus = isInDockingZone(Zero3, 0, Zero3, Zero3)
  /\ forces = << >>
  /\ torques = << >>
  /\ debits = << >>
  /\ wheelTorques = [ i \in Idx(wheelConfig) |-> 0 ]
  /\ refused = << >>
  /\ leftBoxSinceUndock = FALSE
  /\ unpausedSinceUndock = 0

Init == InitWith(ThrusterConfig, WheelConfig, CmgConfig, FuelConfig)

-----------------------------------------------------------------------------
(* Operator commands (the keydown / keyup handlers)                        *)

Inactive(thr) == [ i \in Idx(thr) |-> [ thr[i] EXCEPT !.active = FALSE ] ]

\* resetSimulation()
\* resetFuel that leaves the tank as it is.
resetFuelKeepingLevel(fuel, maxFuel) == fuel

\* fuelMass after resetFuel()
resetFuel(fuel, maxFuel) == maxFuel

ResetSimulation ==
  /\ position' = Zero3
  /\ velocity' = Zero3
  /\ angularVelocity' = Zero3
  /\ angleDiff' = 0
  \* resetFuel()
  /\ fuelMass' = resetFuel(fuelMass, maxFuelMass)
  /\ bodyMass' =
       updateSatelliteMass(Body, dryMass + resetFuel(fuelMass, maxFuelMass)).mass
  /\ bodyInvMass' =
       updateSatelliteMass(Body, dryMass + resetFuel(fuelMass, maxFuelMass)).invMass
  /\ bodyInertia' =
       updateSatelliteMass(Body, dryMass + resetFuel(fuelMass, maxFuelMass)).inertia
  /\ bodyInvInertia' =
       updateSatelliteMass(Body, dryMass + resetFuel(fuelMass, maxFuelMass)).invInertia
  /\ UNCHANGED << dryMass, maxFuelMass >>
  /\ mode' = "thrusters"
  /\ reactionWheels' =
       [ i \in Idx(reactionWheels) |->
           [ reactionWheels[i] EXCEPT !.currentAngularMomentum = 0 ] ]
  /\ cmgs' = [ i \in Idx(cmgs) |-> [ cmgs[i] EXCEPT !.currentAngularMomentum = Zero3 ] ]
  /\ UNCHANGED << loaded, desaturationActive >>
  /\ thrusters' = Inactive(thrusters)
  /\ isDocked' = TRUE
  /\ paused' = TRUE
  /\ canDock' = FALSE
  /\ hasLeftDockingBoxOnce' = FALSE
  /\ undockTime' = null
  /\ pausedStartTime' = null
  /\ accumulatedPausedTime' = 0
  /\ UNCHANGED << lastDockedTime, dockingStatus >>
  /\ NoEffects
  /\ leftBoxSinceUndock' = FALSE
  /\ unpausedSinceUndock' = 0

\* A pause toggle that never undocks.
UndockingNever(docked, isPaused) == FALSE

\* if (isDocked && paused) : the pause toggle undocks
Undocking(docked, isPaused) == docked /\ isPaused

\* The handler of Backquote + p and of Backquote + f: undock when docked and paused, then
\* toggle the pause.
PauseToggle ==
  LET undocking == Undocking(isDocked, paused)
      accumulated == IF undocking THEN 0 ELSE accumulatedPausedTime
  IN  /\ isDocked' = IF undocking THEN FALSE ELSE isDocked
      /\ hasLeftDockingBoxOnce' = IF undocking THEN TRUE ELSE hasLeftDockingBoxOnce
      /\ canDock' = IF undocking THEN FALSE ELSE canDock
      /\ undockTime' = IF undocking THEN now ELSE undockTime
      /\ accumulatedPausedTime' =
           IF paused THEN AccumulateOnResume(accumulated, pausedStartTime, now)
           ELSE accumulated
      /\ pausedStartTime' = IF paused THEN null ELSE now
      /\ paused' = ~paused
      /\ leftBoxSinceUndock' = IF undocking THEN FALSE ELSE leftBoxSinceUndock
      /\ unpausedSinceUndock' = IF undocking THEN 0 ELSE unpausedSinceUndock
      /\ NoEffects
      /\ UNCHANGED << lastDockedTime, bodyVars, fuelVars, thrusters, actuatorVars,
                      dockingStatus >>

\* setFuelProperties(properties), all three fuel properties supplied.
SetFuelProperties(properties) ==
  /\ dryMass' = properties.dryMass
  /\ fuelMass' = properties.fuelMass
  /\ maxFuelMass' = properties.maxFuelMass
  /\ bodyMass' = properties.dryMass + properties.fuelMass
  /\ bodyInvMass' = InvMass(properties.dryMass + properties.fuelMass)
  /\ UNCHANGED << bodyInertia, bodyInvInertia >>
  /\ NoEffects
  /\ UNCHANGED << now, oldTime, inputVars, clockVars, dockVars, position, angleDiff,
                  velocity, angularVelocity, thrusters, keyToThrusterIndices, actuatorVars,
                  dockingStatus, historyVars >>

\* setFuelProperties(properties) for properties that also carry an inertia
\* entry.
SetFuelPropertiesWithInertia(properties, inertia) ==
  /\ dryMass' = properties.dryMass
  /\ fuelMass' = properties.fuelMass
  /\ maxFuelMass' = properties.maxFuelMass
  /\ bodyMass' = properties.dryMass + properties.fuelMass
  /\ bodyInvMass' = InvMass(properties.dryMass + properties.fuelMass)
  /\ bodyInertia' = inertia
  /\ bodyInvInertia' = InvInertia(inertia)
  /\ NoEffects
  /\ UNCHANGED << now, oldTime, inputVars, clockVars, dockVars, position, angleDiff,
                  velocity, angularVelocity, thrusters, keyToThrusterIndices, actuatorVars,
                  dockingStatus, historyVars >>

\* thrusters = await initializeThrustersWithConfig(config, ..., keyToThrusterIndices, ...)
\* run again on the map that is already filled.
InitializeThrusters(config) ==
  /\ \A k \in ChannelKeys : Len(keyToThrusterIndices[k]) < MaxBindings
  /\ thrusters' = [ i \in Idx(config) |->
                      [ pos |-> SanitizedThrusters(config)[i].pos,
                        dir |-> SanitizedThrusters(config)[i].dir,
                        thrust |-> SanitizedThrusters(config)[i].thrust,
                        isp |-> SanitizedThrusters(config)[i].isp,
                        active |-> FALSE ] ]
  /\ keyToThrusterIndices' =
       ProcessThrusterConfigOnto(keyToThrusterIndices, SanitizedThrusters(config))
  /\ NoEffects
  /\ UNCHANGED << now, oldTime, inputVars, clockVars, dockVars, bodyVars, fuelVars,
                  actuatorVars, dockingStatus, historyVars >>

\* initializeThrustersWithConfig on the empty binding map of start-up, for a
\* configuration with geometry on the fine grid (positions in thousandths,
\* directions in ten-thousandths in the thruster objects).  A TypeError in
\* processThrusterConfig is caught and the thruster list is empty.
LoadThrusterConfig(config) ==
  /\ thrusters = << >>
  /\ \A k \in ChannelKeys : keyToThrusterIndices[k] = << >>
  /\ keyToThrusterIndices' =
       BindThrusters([ bindings |-> keyToThrusterIndices, thrown |-> FALSE ],
                     config, 1).bindings
  /\ thrusters' =
       IF BindThrusters([ bindings |-> keyToThrusterIndices, thrown |-> FALSE ],
                        config, 1).thrown
       THEN << >>
       ELSE [ i \in Idx(config) |->
                [ pos |-> config[i].position,
                  dir |-> UnitDirection(config[i].direction),
                  thrust |-> Sanitize(config[i].thrust, DefaultThrust),
                  isp |-> Sanitize(config[i].isp, DefaultIsp),
                  active |-> FALSE ] ]
  /\ NoEffects
  /\ UNCHANGED << now, oldTime, inputVars, clockVars, dockVars, bodyVars, fuelVars,
                  actuatorVars, dockingStatus, historyVars >>

\* stopEverything()
StopEverything ==
  /\ velocity' = Zero3
  /\ angularVelocity' = Zero3
  /\ thrusters' = Inactive(thrusters)
  /\ NoEffects
  /\ UNCHANGED << position, angleDiff, clockVars, dockVars, fuelVars, actuatorVars,
                  dockingStatus, historyVars >>

\* A mode toggle that also clears desaturationActive.
ToggleModeCommandClearingFlag ==
  /\ mode' = toggleMode(mode, loaded, cmgs)
  /\ desaturationActive' = FALSE
  /\ NoEffects
  /\ UNCHANGED << loaded, reactionWheels, cmgs, clockVars,
                  dockVars, bodyVars, fuelVars, thrusters, dockingStatus,
                  historyVars >>

\* key t: attitudeControl.toggleMode()
ToggleModeCommand ==
  /\ mode' = toggleMode(mode, loaded, cmgs)
  /\ NoEffects
  /\ UNCHANGED << loaded, reactionWheels, cmgs, desaturationActive, clockVars,
                  dockVars, bodyVars, fuelVars, thrusters, dockingStatus,
                  historyVars >>

\* key g: attitudeControl.desaturateWithThrusters(thrusters, keyToThrusterIndices)
DesaturateCommand ==
  LET r == desaturateWithThrusters(mode, reactionWheels, cmgs, desaturationActive,
                                   thrusters)
  IN  /\ reactionWheels' = r.wheels
      /\ cmgs' = r.cmgs
      /\ desaturationActive' = r.desaturationActive
      /\ forces' = r.forces
      /\ torques' = << >>
      /\ debits' = << >>
      /\ wheelTorques' = NoWheelTorques
      /\ refused' = << >>
      /\ UNCHANGED << mode, loaded, clockVars, dockVars, bodyVars, fuelVars,
                      thrusters, dockingStatus, historyVars >>

\* A key that starts no command.
NoCommand ==
  /\ NoEffects
  /\ UNCHANGED << clockVars, dockVars, bodyVars, fuelVars, thrusters, actuatorVars,
                  dockingStatus, historyVars >>

\* document.addEventListener('keydown', ...) for the key e.key (lower case,
\* "CapsLock", or "Backquote" for the backtick).  Of keys{} only the channel keys are ever read, so only
\* they are kept.
KeyDown(key) ==
  /\ UNCHANGED << now, oldTime, timedFiringEnabled, firingDuration, torquePercentage,
                  keyToThrusterIndices >>
  /\ IF key = "CapsLock"
     THEN /\ fineControlMode' = ~fineControlMode
          /\ fineControlKeys' = {}
          /\ fineControlProcessedKeys' = {}
          /\ UNCHANGED << keys, backtickPressed, fineControlKeyStartTimes >>
          /\ NoCommand
     ELSE LET backtick == backtickPressed \/ key = "Backquote"
              fine == fineControlMode /\ key \in ChannelKeys
              fresh == fine /\ key \notin fineControlProcessedKeys
          IN  /\ backtickPressed' = backtick
              /\ UNCHANGED fineControlMode
              /\ fineControlKeys' =
                   IF fresh THEN fineControlKeys \cup { key } ELSE fineControlKeys
              /\ fineControlProcessedKeys' =
                   IF fresh THEN fineControlProcessedKeys \cup { key }
                   ELSE fineControlProcessedKeys
              \* !fineControlKeyStartTimes[k] : no entry, or an entry of 0
              /\ fineControlKeyStartTimes' =
                   IF /\ fresh
                      /\ timedFiringEnabled
                      /\ fineControlKeyStartTimes[key] \in { null, 0 }
                   THEN [ fineControlKeyStartTimes EXCEPT ![key] = now ]
                   ELSE fineControlKeyStartTimes
              /\ keys' = IF ~fine /\ key \in ChannelKeys THEN keys \cup { key } ELSE keys
              /\ IF backtick /\ key = "r" THEN ResetSimulation
                 ELSE IF backtick /\ key \in { "p", "f" } THEN PauseToggle
                 ELSE IF key = " " THEN StopEverything
                 ELSE IF key = "t" /\ loaded THEN ToggleModeCommand
                 ELSE IF key = "g" /\ loaded THEN DesaturateCommand
                 ELSE NoCommand

\* document.addEventListener('keyup', ...)
KeyUp(key) ==
  /\ backtickPressed' = (backtickPressed /\ key # "Backquote")
  /\ fineControlProcessedKeys' =
       IF fineControlMode THEN fineControlProcessedKeys \ { key }
       ELSE fineControlProcessedKeys
  /\ keys' = IF fineControlMode THEN keys ELSE keys \ { key }
  /\ NoCommand
  /\ UNCHANGED << now, oldTime, fineControlMode, fineControlKeys,
                  fineControlKeyStartTimes, timedFiringEnabled, firingDuration,
                  torquePercentage, keyToThrusterIndices >>

\* torqueSlider 'input' listener
TorqueSlider(percent) ==
  /\ torquePercentage' = percent
  /\ NoCommand
  /\ UNCHANGED << now, oldTime, keys, backtickPressed, fineControlMode,
                  fineControlKeys, fineControlProcessedKeys,
                  fineControlKeyStartTimes, timedFiringEnabled, firingDuration,
                  keyToThrusterIndices >>

\* timedFiringToggle 'change' listener: the checkbox changed its state.
TimedFiringToggle ==
  /\ timedFiringEnabled' = ~timedFiringEnabled
  /\ fineControlKeyStartTimes' = [ k \in ChannelKeys |-> null ]
  /\ NoCommand
  /\ UNCHANGED << now, oldTime, keys, backtickPressed, fineControlMode,
                  fineControlKeys, fineControlProcessedKeys, firingDuration,
                  torquePercentage, keyToThrusterIndices >>

\* firingDurationSlider 'input' listener (the duration in milliseconds here)
FiringDurationSlider(duration) ==
  /\ firingDuration' = duration
  /\ NoCommand
  /\ UNCHANGED << now, oldTime, keys, backtickPressed, fineControlMode,
                  fineControlKeys, fineControlProcessedKeys,
                  fineControlKeyStartTimes, timedFiringEnabled, torquePercentage,
                  keyToThrusterIndices >>

\* Wall-clock time passes (one millisecond).
Tick ==
  /\ now < MaxTime
  /\ now' = now + 1
  /\ unpausedSinceUndock' =
       IF ~isDocked /\ ~paused THEN unpausedSinceUndock + 1 ELSE unpausedSinceUndock
  /\ NoEffects
  /\ UNCHANGED << oldTime, inputVars, clockVars, dockVars, bodyVars, fuelVars,
                  thrusters, keyToThrusterIndices, actuatorVars, dockingStatus,
                  leftBoxSinceUndock >>

-----------------------------------------------------------------------------
(* animate(): one frame                                                    *)

\* clock.getDelta(): the first call starts the clock and returns 0.
ClockDelta == IF oldTime = null THEN 0 ELSE now - oldTime

\* The channels whose timed firing ran out (the keys deleted at the top of
\* animate).
ExpiredKeys ==
  IF fineControlMode /\ timedFiringEnabled
  THEN { k \in ChannelKeys :
           /\ fineControlKeyStartTimes[k] # null
           /\ now - fineControlKeyStartTimes[k] >= firingDuration }
  ELSE {}

RECURSIVE SumMaxTorque(_, _)
\* reduce((sum, x) => sum + x.maxTorque, 0), from index n on
SumMaxTorque(bank, n) ==
  IF n > Len(bank) THEN 0 ELSE bank[n].maxTorque + SumMaxTorque(bank, n + 1)

\* torquePerAxis = maxTorque * (torquePercentage / 100), maxTorque the average
\* over the active bank, or the fallback 0.5
TorquePerAxis(m, wheels, cmgBank, percent) ==
  LET maxTorque ==
        IF m = "cmgs" /\ Len(cmgBank) > 0
        THEN Quot(SumMaxTorque(cmgBank, 1), Len(cmgBank))
        ELSE IF m # "cmgs" /\ Len(wheels) > 0
        THEN Quot(SumMaxTorque(wheels, 1), Len(wheels))
        ELSE 50
  IN  Quot(maxTorque * percent, 100)

\* The torque vector built from the pressed channels (I/K, J/L, U/O are
\* swapped for CMGs).
ControlTorque(m, pressed, torquePerAxis) ==
  LET isCMGMode == (m = "cmgs")
      Axis(plusKey, minusKey) ==
        (IF (IF isCMGMode THEN minusKey ELSE plusKey) \in pressed
           THEN torquePerAxis ELSE 0)
        - (IF (IF isCMGMode THEN plusKey ELSE minusKey) \in pressed
             THEN torquePerAxis ELSE 0)
  IN  << Axis("i", "k"), Axis("l", "j"), Axis("u", "o") >>

\* stillPressed for thruster i: some pressed channel lists it.
StillPressed(bindings, pressed, i) ==
  \E k \in ChannelKeys :
    /\ k \in pressed
    /\ \E n \in Idx(bindings[k]) : bindings[k][n] = i

\* keyIsPressed = fineControlMode ? fineControlKeys[key] : keys[key], after the
\* expired timed firings were dropped.
PressedInFrame ==
  IF fineControlMode THEN fineControlKeys \ ExpiredKeys ELSE keys

\* !paused && attitudeControl.loaded && attitudeControl.mode !== 'thrusters'
UseActuators == ~paused /\ loaded /\ mode # "thrusters"

\* if (torque.length() > 0) attitudeControl.applyControlTorque(torque)
TorquePhase(torque) ==
  IF UseActuators /\ torque # Zero3
  THEN applyControlTorque(mode, reactionWheels, cmgs, torque)
  ELSE [ wheels |-> reactionWheels, cmgs |-> cmgs,
         wheelTorques |-> NoWheelTorques, torques |-> << >> ]

\* What the actuator branch of a frame did: ctl from the torque request, des
\* from the desaturation step.
ActuatorResult(ctl, des) ==
  [ wheels |-> des.wheels, cmgs |-> des.cmgs,
    desaturationActive |-> des.desaturationActive, forces |-> des.forces,
    torques |-> ctl.torques, wheelTorques |-> ctl.wheelTorques ]

\* if (attitudeControl.desaturationActive) desaturateWithThrusters(...)
DesaturationPhase(ctl) ==
  IF UseActuators /\ desaturationActive
  THEN ActuatorResult(ctl, desaturateWithThrusters(mode, ctl.wheels, ctl.cmgs,
                                                   desaturationActive, thrusters))
  ELSE ActuatorResult(ctl, [ wheels |-> ctl.wheels, cmgs |-> ctl.cmgs,
                             forces |-> << >>,
                             desaturationActive |-> desaturationActive ])

\* The actuator branch of a frame.
ActuatorPhase(pressed) ==
  DesaturationPhase(TorquePhase(
    ControlTorque(mode, pressed,
                  TorquePerAxis(mode, reactionWheels, cmgs, torquePercentage))))

\* A rotation loop that runs in every mode.
RotationFiringInEveryMode(st, pressed) ==
  IF ~paused
  THEN FireAll(st, FiringList(keyToThrusterIndices, pressed, RotationKeys, 1),
               ClockDelta)
  ELSE st

\* Rotation channels fire thrusters only outside the actuator branch.
RotationFiring(st, pressed) ==
  IF ~paused /\ ~UseActuators
  THEN FireAll(st, FiringList(keyToThrusterIndices, pressed, RotationKeys, 1),
               ClockDelta)
  ELSE st

\* The thruster indices of a list that have not fired in this frame yet.
NotYetFired(st, indices) ==
  SelectSeq(indices,
            LAMBDA i : \A n \in 1..Len(st.forces) : st.forces[n].thruster # i)

\* A translation loop that skips the thrusters the rotation loop has fired.
TranslationFiringOnce(st, pressed) ==
  IF ~paused
  THEN FireAll(st, NotYetFired(st, FiringList(keyToThrusterIndices, pressed,
                                              TranslationKeys, 1)),
               ClockDelta)
  ELSE st

\* Translation channels fire thrusters in every mode.
TranslationFiring(st, pressed) ==
  IF ~paused
  THEN FireAll(st, FiringList(keyToThrusterIndices, pressed, TranslationKeys, 1),
               ClockDelta)
  ELSE st

\* The two firing loops of a frame, after the actuator branch act.
FiringPhase(act, pressed) ==
  TranslationFiring(
    RotationFiring([ fuelMass |-> fuelMass, thrusters |-> thrusters,
                     forces |-> act.forces, debits |-> << >>,
                     refused |-> << >> ], pressed),
    pressed)

\* A physics step that also runs while paused.
PhysicsPhaseWhilePaused(kin) == kin

\* world.step(1/170), ending in the pose kin; no step while paused.
PhysicsPhase(kin) ==
  IF ~paused THEN kin
  ELSE [ position |-> position, angleDiff |-> angleDiff,
         velocity |-> velocity, angularVelocity |-> angularVelocity ]

\* The docking evaluation of a frame and the frame's writes: act and st are
\* the results of the actuator branch and of the firing loops, body the pose
\* after the physics step, status the criteria on it, docks the transition.
FrameCommit(pressed, act, st, body, status, docks) ==
  /\ oldTime' = now
  /\ UNCHANGED << now, keys, backtickPressed, fineControlMode,
                  fineControlProcessedKeys, timedFiringEnabled, firingDuration,
                  torquePercentage, keyToThrusterIndices >>
  /\ fineControlKeyStartTimes' =
       [ k \in ChannelKeys |->
           IF k \in ExpiredKeys THEN null ELSE fineControlKeyStartTimes[k] ]
  \* if (!timedFiringEnabled) fineControlKeys = {}
  /\ fineControlKeys' =
       IF ~timedFiringEnabled THEN {} ELSE fineControlKeys \ ExpiredKeys
  /\ reactionWheels' = act.wheels
  /\ cmgs' = act.cmgs
  /\ desaturationActive' = act.desaturationActive
  /\ UNCHANGED << mode, loaded >>
  /\ fuelMass' = st.fuelMass
  \* consumeFuel() calls updateSatelliteMass()
  /\ bodyMass' = IF st.debits # << >>
                 THEN updateSatelliteMass(Body, dryMass + st.fuelMass).mass
                 ELSE bodyMass
  /\ bodyInvMass' = IF st.debits # << >>
                    THEN updateSatelliteMass(Body, dryMass + st.fuelMass).invMass
                    ELSE bodyInvMass
  /\ bodyInertia' = IF st.debits # << >>
                    THEN updateSatelliteMass(Body, dryMass + st.fuelMass).inertia
                    ELSE bodyInertia
  /\ bodyInvInertia' = IF st.debits # << >>
                       THEN updateSatelliteMass(Body, dryMass + st.fuelMass).invInertia
                       ELSE bodyInvInertia
  /\ UNCHANGED << dryMass, maxFuelMass >>
  \* if (t.active && !stillPressed) t.active = false
  /\ thrusters' =
       [ i \in Idx(thrusters) |->
           [ st.thrusters[i] EXCEPT !.active =
               @ /\ StillPressed(keyToThrusterIndices, pressed, i) ] ]
  /\ forces' = st.forces
  /\ debits' = st.debits
  /\ refused' = st.refused
  /\ torques' = act.torques
  /\ wheelTorques' = act.wheelTorques
  /\ dockingStatus' = status
  \* if (!dockingStatus.inBox) hasLeftDockingBoxOnce = true
  /\ hasLeftDockingBoxOnce' = (hasLeftDockingBoxOnce \/ ~status.inBox)
  /\ position' = body.position
  /\ angleDiff' = body.angleDiff
  /\ velocity' = IF docks THEN Zero3 ELSE body.velocity
  /\ angularVelocity' = IF docks THEN Zero3 ELSE body.angularVelocity
  /\ isDocked' = (isDocked \/ docks)
  /\ paused' = (paused \/ docks)
  /\ lastDockedTime' =
       IF docks
       THEN ElapsedSince(TRUE, pausedStartTime, undockTime, accumulatedPausedTime, now)
       ELSE lastDockedTime
  \* if (!canDock && !dockingStatus.inBox && hasLeftDockingBoxOnce) canDock = true
  /\ canDock' = (canDock \/ ~status.inBox)
  /\ UNCHANGED << undockTime, pausedStartTime, accumulatedPausedTime >>
  /\ leftBoxSinceUndock' = (leftBoxSinceUndock \/ (~isDocked /\ ~status.inBox))
  /\ UNCHANGED unpausedSinceUndock

\* The docking evaluation on the pose after the physics step.
FrameDocking(pressed, act, st, body, status) ==
  FrameCommit(pressed, act, st, body, status,
              DockingCondition(isDocked, canDock,
                               hasLeftDockingBoxOnce \/ ~status.inBox, status))

FramePhases(pressed, act, body) ==
  FrameDocking(pressed, act, FiringPhase(act, pressed), body,
               isInDockingZone(body.position, body.angleDiff, body.velocity,
                               body.angularVelocity))

\* animate(), with poses the poses world.step() may end in.
Frame(poses) ==
  \E kin \in poses :
    FramePhases(PressedInFrame, ActuatorPhase(PressedInFrame), PhysicsPhase(kin))

-----------------------------------------------------------------------------------------------------------------------------------------------------
(* Specifications                                                          *)

\* The pose at rest at the reference pose.
AtRest == { k \in Kinematics : k.position = Zero3 }

\* The whole program: every command, the channels w (translation), o and u
\* (rotation about z), the torque slider, frames and the passage of time.
Next ==
  \/ Tick
  \/ Frame(Kinematics)
  \/ \E key \in { "Backquote", "p", "r", " ", "t", "g", "w", "o", "u" } : KeyDown(key)
  \/ \E key \in { "Backquote", "w", "o", "u" } : KeyUp(key)
  \/ \E percent \in TorquePercentages : TorqueSlider(percent)

Spec == Init /\ [][Next]_vars

\* Propulsion: thruster firings through a channel (u: thruster 3) and through
\* desaturation, with the fuel they burn.
NextFuel ==
  \/ Tick
  \/ Frame(AtRest)
  \/ \E key \in { "Backquote", "p", "t", "g", "u" } : KeyDown(key)
  \/ \E key \in { "u" } : KeyUp(key)

SpecFuel == Init /\ [][NextFuel]_vars

\* Momentum actuators: torque requests of both signs and two magnitudes,
\* desaturation, mode toggles and resets.
NextActuators ==
  \/ Frame(AtRest)
  \/ \E key \in { "Backquote", "p", "r", "t", "g", "o", "u" } : KeyDown(key)
  \/ \E key \in { "Backquote", "o", "u" } : KeyUp(key)
  \/ \E percent \in TorquePercentages : TorqueSlider(percent)

SpecActuators == Init /\ [][NextActuators]_vars

\* Docking and the clock: undock, pause, stop-all, reset, frames ending in
\* any pose, and the passage of time.
NextDock ==
  \/ Tick
  \/ Frame(Kinematics)
  \/ \E key \in { "Backquote", "p", "r", " " } : KeyDown(key)
  \/ \E key \in { "Backquote" } : KeyUp(key)

SpecDock == Init /\ [][NextDock]_vars

\* Mode selection: every combination of an empty or configured wheel bank and
\* CMG bank, with mode toggles, desaturation, channel u, frames and resets.
InitModes ==
  \E wheelConfig \in { << >>, WheelConfig }, cmgConfig \in { << >>, CmgConfig } :
    InitWith(ThrusterConfig, wheelConfig, cmgConfig, FuelConfig)

NextModes ==
  \/ Frame(AtRest)
  \/ \E key \in { "Backquote", "p", "r", "t", "g", "u" } : KeyDown(key)
  \/ \E key \in { "Backquote", "u" } : KeyUp(key)

SpecModes == InitModes /\ [][NextModes]_vars

\* Configuration load: the vehicle starts from any of the supplied
\* spacecraftProperties, without momentum actuators; setFuelProperties may
\* replace them at any time; channel u fires thruster 3.
InitLoad ==
  \E properties \in SpacecraftProperties :
    InitWith(ThrusterConfig, << >>, << >>, properties)

NextLoad ==
  \/ Tick
  \/ Frame(AtRest)
  \/ \E key \in { "Backquote", "p", "r", "u" } : KeyDown(key)
  \/ \E key \in { "Backquote", "u" } : KeyUp(key)
  \/ \E properties \in SpacecraftProperties : SetFuelProperties(properties)

SpecLoad == InitLoad /\ [][NextLoad]_vars

\* Thruster objects as a frame may find them: thruster 3 with its configured
\* numbers, with a zero or negative thrust, or with a zero or negative isp.
ThrusterObjects ==
  { [ ThrusterConfig EXCEPT ![3].thrust = n.thrust, ![3].isp = n.isp ] :
      n \in { [thrust |-> 1962, isp |-> 100], [thrust |-> 0, isp |-> 100],
              [thrust |-> -1962, isp |-> 100], [thrust |-> 1962, isp |-> 0],
              [thrust |-> 1962, isp |-> -100] } }

\* Fire-time checks: channel u fires thruster 3, whatever its numbers are.
InitFire ==
  \E thrusterObjects \in ThrusterObjects :
    InitWith(thrusterObjects, << >>, << >>, FuelConfig)

NextFire ==
  \/ Tick
  \/ Frame(AtRest)
  \/ \E key \in { "Backquote", "p", "u" } : KeyDown(key)
  \/ \E key \in { "Backquote", "u" } : KeyUp(key)

SpecFire == InitFire /\ [][NextFire]_vars

\* The poses at rest at the reference pose and outside the box.
RestOrAway == { k \in Kinematics : k.angularVelocity = Zero3 /\ k.position[2] = 0 }

\* Reset: undock, pause, mode toggles, channel u once pressed and held
\* (thruster 3, the wheel or the CMG), frames ending at rest or outside the
\* box, the passage of time, and resets.
NextReset ==
  \/ Tick
  \/ Frame(RestOrAway)
  \/ \E key \in { "Backquote", "p", "r", "t", "u" } : KeyDown(key)

SpecReset == Init /\ [][NextReset]_vars

\* Thruster load: the thrusters come from any of the raw configurations, and
\* the load may run again on the same binding map; channel u fires.
InitBind ==
  \E config \in RawThrusterConfigs :
    InitWith(SanitizedThrusters(config), << >>, << >>, FuelConfig)

NextBind ==
  \/ Tick
  \/ Frame(AtRest)
  \/ \E key \in { "Backquote", "p", "u" } : KeyDown(key)
  \/ \E key \in { "u" } : KeyUp(key)
  \/ \E config \in RawThrusterConfigs : InitializeThrusters(config)

SpecBind == InitBind /\ [][NextBind]_vars

\* A wheel bank with unequal torque limits: torque requests of both signs,
\* mode toggles and pauses.
InitUneven == InitWith(ThrusterConfig, UnevenWheelConfig, << >>, FuelConfig)

NextUneven ==
  \/ Frame(AtRest)
  \/ \E key \in { "Backquote", "p", "t", "o", "u" } : KeyDown(key)
  \/ \E key \in { "o", "u" } : KeyUp(key)

SpecUneven == InitUneven /\ [][NextUneven]_vars

\* CMG desaturation: a wheel and a large CMG, torque requests of both signs
\* about z, mode toggles, the desaturate key and pauses.
InitCmg == InitWith(ThrusterConfig, WheelConfig, LargeCmgConfig, FuelConfig)

CmgWithinBound ==
  LenSq(TotalCmgMomentum(cmgs)) <= MaxCmgMomentum * MaxCmgMomentum

NextCmg ==
  \/ Frame(AtRest) /\ CmgWithinBound'
  \/ \E key \in { "Backquote", "p", "t", "g", "o", "u" } :
       KeyDown(key) /\ CmgWithinBound'
  \/ \E key \in { "o", "u" } : KeyUp(key)

SpecCmg == InitCmg /\ [][NextCmg]_vars

\* CMG control: a bank of two unequal CMGs, torque requests of both signs
\* about z, mode toggles, pauses and the passage of time between frames.
InitCmgPair == InitWith(ThrusterConfig, << >>, UnevenCmgConfig, FuelConfig)

NextCmgPair ==
  \/ Tick
  \/ Frame(AtRest)
  \/ \E key \in { "Backquote", "p", "t", "o", "u" } : KeyDown(key)
  \/ \E key \in { "o", "u" } : KeyUp(key)

SpecCmgPair == InitCmgPair /\ [][NextCmgPair]_vars

\* Fine control: CapsLock, presses and releases of channel u, the timed
\* firing checkbox and its duration slider, undock and pause, frames and the
\* passage of time.
NextFine ==
  \/ Tick
  \/ Frame(AtRest)
  \/ \E key \in { "CapsLock", "Backquote", "p", "u" } : KeyDown(key)
  \/ \E key \in { "u" } : KeyUp(key)
  \/ TimedFiringToggle
  \/ \E duration \in FiringDurations : FiringDurationSlider(duration)

SpecFine == Init /\ [][NextFine]_vars

\* Exhaustion: thrusters only, channel u (rotation: thruster 3) and channel w
\* (translation: thruster 1) pressed alone or together, undock, pause and
\* reset, frames and the passage of time.
InitExhaust == InitWith(ThrusterConfig, << >>, << >>, FuelConfig)

NextExhaust ==
  \/ Tick
  \/ Frame(AtRest)
  \/ \E key \in { "Backquote", "p", "r", "u", "w" } : KeyDown(key)
  \/ \E key \in { "Backquote", "u", "w" } : KeyUp(key)

SpecExhaust == InitExhaust /\ [][NextExhaust]_vars

\* Thruster geometry and key binding: start-up without thrusters, then the
\* load of any of the configurations.
InitGeometry == InitWith(<< >>, << >>, << >>, FuelConfig)

NextGeometry ==
  \E config \in GeometryConfigs : LoadThrusterConfig(config)

SpecGeometry == InitGeometry /\ [][NextGeometry]_vars

\* The inertia entries a configuration may carry.
Inertias == { <<2, 4, 5>>, <<0, 3, 3>> }

\* Mass properties: thrusters only, channel u (thruster 3), undock, pause and
\* reset, setFuelProperties with an inertia entry, frames and the passage of
\* time.
NextInertia ==
  \/ Tick
  \/ Frame(AtRest)
  \/ \E key \in { "Backquote", "p", "r", "u" } : KeyDown(key)
  \/ \E key \in { "Backquote", "u" } : KeyUp(key)
  \/ \E inertia \in Inertias : SetFuelPropertiesWithInertia(FuelConfig, inertia)

SpecInertia == InitExhaust /\ [][NextInertia]_vars

\* Commands while docked: undock, pause, reset, stop-all, mode toggle,
\* desaturation and channel u (thruster 3, the wheel or the CMG), with frames
\* ending in any pose.
NextDockCommands ==
  \/ Frame(Kinematics)
  \/ \E key \in { "Backquote", "p", "r", " ", "t", "g", "u" } : KeyDown(key)
  \/ \E key \in { "u" } : KeyUp(key)

SpecDockCommands == Init /\ [][NextDockCommands]_vars

\* CMG banks: two equal or two unequal CMGs, torque requests of both signs
\* about z at both slider values, mode toggles and pauses.
InitCmgBank ==
  \E cmgConfig \in { EqualCmgConfig, UnevenCmgConfig } :
    InitWith(ThrusterConfig, << >>, cmgConfig, FuelConfig)

NextCmgBank ==
  \/ Frame(AtRest)
  \/ \E key \in { "Backquote", "p", "t", "o", "u" } : KeyDown(key)
  \/ \E key \in { "o", "u" } : KeyUp(key)
  \/ \E percent \in TorquePercentages : TorqueSlider(percent)

SpecCmgBank == InitCmgBank /\ [][NextCmgBank]_vars

\* Shared thrusters: thrusters only, channels e (translation) and o
\* (rotation), both bound to thruster 2, pressed alone or together, undock and
\* pause, frames and the passage of time.
NextShared ==
  \/ Tick
  \/ Frame(AtRest)
  \/ \E key \in { "Backquote", "p", "e", "o" } : KeyDown(key)
  \/ \E key \in { "Backquote", "e", "o" } : KeyUp(key)

SpecShared == InitExhaust /\ [][NextShared]_vars

-----------------------------------------------------------------------------
(* Properties                                                              *)

\* The torque requested along the axis of wheel i by the frame about to run.
WheelRequest(i) ==
  Dot(reactionWheels[i].orientation,
      ControlTorque(mode, PressedInFrame,
                    TorquePerAxis(mode, reactionWheels, cmgs, torquePercentage)))

\* A step in which applyReactionWheelControl ran.
WheelControlStep ==
  /\ torques' # << >>
  /\ \A n \in Idx(torques') : torques'[n].by = "wheel"

\* The core state: the fields resetSimulation writes, with the clock display.
CoreState ==
  << isDocked, paused, hasLeftDockingBoxOnce, canDock,
     undockTime, pausedStartTime, accumulatedPausedTime, displayedElapsed,
     fuelMass, mode,
     [ i \in Idx(reactionWheels) |-> reactionWheels[i].currentAngularMomentum ],
     [ i \in Idx(cmgs) |-> cmgs[i].currentAngularMomentum ],
     position, angleDiff, velocity, angularVelocity >>

\* The values of the core state at start-up, for the configured tank and banks.
InitialCore ==
  << TRUE, TRUE, FALSE, FALSE,
     null, null, 0, 0,
     maxFuelMass, "thrusters",
     [ i \in Idx(reactionWheels) |-> 0 ],
     [ i \in Idx(cmgs) |-> Zero3 ],
     Zero3, 0, Zero3, Zero3 >>

\* A step that calls desaturateWithThrusters: the g key, or a running frame
\* in an actuator mode with desaturationActive set.
DesaturationCall ==
  \/ KeyDown("g") /\ loaded
  \/ UseActuators /\ desaturationActive /\ Frame(AtRest)

\* A step that calls desaturateWithThrusters and applies no control torque.
DesaturationOnly ==
  \/ KeyDown("g") /\ loaded
  \/ UseActuators /\ desaturationActive /\ PressedInFrame = {} /\ Frame(AtRest)

\* The square of the magnitude of the total CMG momentum.
CmgMomentumSq(cmgBank) == LenSq(TotalCmgMomentum(cmgBank))

\* All four docking criteria hold.
AllCriteria(status) ==
  /\ status.inBox
  /\ status.inAngle
  /\ status.withinSpeedLimits
  /\ status.withinAngularSpeedLimit

\* C1: a step that fires thrusters, each firing debiting through consumeFuel,
\* never increases fuelMass and never leaves it negative.
C1_FuelMonotone ==
  [][ debits' # << >> => (fuelMass' <= fuelMass /\ fuelMass' >= 0) ]_vars

\* A firing with a positive debit has just emptied the tank.
C1_Witness ==
  /\ fuelMass = 0
  /\ \E n \in Idx(debits) : debits[n] > 0
  /\ \E n \in Idx(forces) : thrusters[forces[n].thruster].active = FALSE

\* C2: once fuelMass is 0 no step applies a thruster force to the vehicle, and
\* every thruster force that is applied comes with a fuel debit (channel
\* firings and the firings of desaturateWithThrusters alike).
C2_NoForceWithoutFuel ==
  [][ /\ fuelMass = 0 => forces' = << >>
      /\ Len(forces') <= Len(debits') ]_vars

\* C3: in every reachable state every reaction wheel holds a momentum within
\* [-maxAngularMomentum, maxAngularMomentum].
C3_WheelMomentumBounded ==
  \A i \in Idx(reactionWheels) :
    /\ -reactionWheels[i].maxAngularMomentum <= reactionWheels[i].currentAngularMomentum
    /\ reactionWheels[i].currentAngularMomentum <= reactionWheels[i].maxAngularMomentum

\* A desaturation step has fired a thruster with a wheel at its negative limit.
C3_Witness ==
  /\ mode = "reactionwheels"
  /\ forces # << >>
  /\ debits = << >>
  /\ \E i \in Idx(reactionWheels) :
       reactionWheels[i].currentAngularMomentum = -reactionWheels[i].maxAngularMomentum

\* C4: a torque request of one sign moves the wheel momentum toward the limit
\* of that sign by request * 1/60, stopping exactly at the limit, whatever the
\* magnitude; at the limit a request of that sign applies zero torque to the
\* wheel and zero reaction torque to the vehicle, and at the opposite limit
\* the request is applied in full.
C4_Saturation ==
  [][ (WheelControlStep /\ ~desaturationActive) =>
        \A i \in Idx(reactionWheels) :
          LET max == reactionWheels[i].maxAngularMomentum
              cur == reactionWheels[i].currentAngularMomentum
              new == reactionWheels'[i].currentAngularMomentum
              req == WheelRequest(i)
          IN  /\ req > 0 =>
                   /\ new = Min(max, cur + Quot(req, InvDt))
                   /\ new >= cur
                   /\ cur = max => (wheelTorques'[i] = 0 /\ torques'[i].torque = Zero3)
                   /\ cur = -max => wheelTorques'[i] = req
              /\ req < 0 =>
                   /\ new = Max(-max, cur + Quot(req, InvDt))
                   /\ new <= cur
                   /\ cur = -max => (wheelTorques'[i] = 0 /\ torques'[i].torque = Zero3)
                   /\ cur = max => wheelTorques'[i] = req ]_vars

\* A request has just been refused in full by a wheel at its positive limit.
C4_Witness ==
  /\ torques # << >>
  /\ \E i \in Idx(reactionWheels) :
       /\ reactionWheels[i].currentAngularMomentum = reactionWheels[i].maxAngularMomentum
       /\ torques[i].by = "wheel"
       /\ torques[i].torque = Zero3
       /\ wheelTorques[i] = 0

\* C5: in every reachable state the momentum vector of every CMG has a
\* magnitude of at most its maxAngularMomentum.
C5_CmgMomentumBounded ==
  \A i \in Idx(cmgs) :
    LenSq(cmgs[i].currentAngularMomentum)
      <= cmgs[i].maxAngularMomentum * cmgs[i].maxAngularMomentum

\* C6: in every applyReactionWheelControl step, for every wheel, the torque
\* applied to the vehicle (local frame) is the negative of the torque applied
\* to the wheel along its axis, and that wheel torque times 1/60 is the
\* change of the wheel's momentum in the step.
C6_ReactionConservation ==
  [][ WheelControlStep =>
        \A i \in Idx(reactionWheels) :
          /\ torques'[i].index = i
          /\ torques'[i].torque =
               VScale(reactionWheels[i].orientation, -wheelTorques'[i])
          /\ ~desaturationActive =>
               (reactionWheels'[i].currentAngularMomentum
                  - reactionWheels[i].currentAngularMomentum) * InvDt
               = wheelTorques'[i] ]_vars

\* A wheel has just taken a torque that was cut down to its remaining capacity.
C6_Witness ==
  /\ torques # << >>
  /\ torquePercentage = 100
  /\ \E i \in Idx(reactionWheels) :
       /\ torques[i].by = "wheel"
       /\ wheelTorques[i] > 0
       /\ wheelTorques[i] < TorquePerAxis(mode, reactionWheels, cmgs, 100)
       /\ torques[i].torque # Zero3

\* C7: after the undock command and a frame seen outside the docking box, a
\* frame in which all four criteria hold docks: it sets DOCKED, pauses the
\* simulation and zeroes the linear and angular velocity.
C7_DockingRoundTrip ==
  [][ ( /\ Frame(Kinematics)
        /\ ~isDocked
        /\ leftBoxSinceUndock
        /\ AllCriteria(dockingStatus') )
      => ( /\ isDocked'
           /\ paused'
           /\ velocity' = Zero3
           /\ angularVelocity' = Zero3 ) ]_vars

\* Docked, after leaving the box, at the pose that met the criteria while
\* still moving.
C7_Witness ==
  /\ isDocked
  /\ paused
  /\ leftBoxSinceUndock
  /\ AllCriteria(dockingStatus)
  /\ position = << 1, 0, -1 >>
  /\ velocity = Zero3
  /\ angularVelocity = Zero3

\* C8: a frame never takes the state machine from UNDOCKED to DOCKED unless a
\* frame since the most recent undock saw the vehicle outside the docking box
\* (resetSimulation, which re-initialises the state machine, is no docking).
C8_NoDockWithoutLeaving ==
  [][ (Frame(Kinematics) /\ ~isDocked /\ isDocked') => leftBoxSinceUndock ]_vars

\* Undocked, never outside the box since, and a running frame has just met
\* all four criteria without docking.
C8_Witness ==
  /\ ~isDocked
  /\ ~leftBoxSinceUndock
  /\ hasLeftDockingBoxOnce
  /\ AllCriteria(dockingStatus)
  /\ position = << 1, 0, -1 >>
  /\ velocity = << 0, 3, 1 >>

\* C9: whenever the state is UNDOCKED the elapsed-since-undock time equals the
\* wall time spent unpaused since the most recent undock, and is not negative.
C9_ElapsedIsUnpausedTime ==
  ~isDocked =>
    /\ elapsedMilliseconds = unpausedSinceUndock
    /\ elapsedMilliseconds >= 0

\* C10: in reaction-wheel mode every desaturation step on a bank whose peak
\* momentum magnitude is at or above 0.5 lowers that peak (so that a bounded
\* number of steps brings it below 0.5), and a step that ends below 0.5
\* clears desaturationActive.
C10_DesaturationConverges ==
  [][ ( /\ KeyDown("g")
        /\ mode = "reactionwheels"
        /\ PeakWheelMomentum(reactionWheels, 1) >= WheelDesatDone )
      => ( /\ PeakWheelMomentum(reactionWheels', 1)
                < PeakWheelMomentum(reactionWheels, 1)
           /\ PeakWheelMomentum(reactionWheels', 1) < WheelDesatDone
                => ~desaturationActive' ) ]_vars

\* C11: a mode toggle moves THRUSTERS to REACTION_WHEELS, REACTION_WHEELS to
\* CMGS when there is at least one CMG and to THRUSTERS otherwise, and CMGS
\* to THRUSTERS; CMGS is never entered with an empty CMG bank; with no
\* actuator configured the mode stays THRUSTERS; and a frame (control torque,
\* desaturation, thruster firing) or the desaturate command never changes
\* the mode.
C11_ModeCycle ==
  [][ /\ (KeyDown("t") /\ loaded) =>
           mode' = CASE mode = "thrusters" -> "reactionwheels"
                     [] mode = "reactionwheels" /\ Len(cmgs) > 0 -> "cmgs"
                     [] OTHER -> "thrusters"
      /\ Len(cmgs) = 0 => mode' # "cmgs"
      /\ (Len(reactionWheels) = 0 /\ Len(cmgs) = 0) => mode' = "thrusters"
      /\ (Frame(AtRest) \/ KeyDown("g")) => mode' = mode
      /\ mode' # mode => (KeyDown("t") \/ KeyDown("r")) ]_vars

\* The cycle wrapped around without a CMG bank: the wheel was spun up in
\* REACTION_WHEELS mode and the next toggle led back to THRUSTERS.
C11_Witness ==
  /\ Len(cmgs) = 0
  /\ Len(reactionWheels) > 0
  /\ mode = "thrusters"
  /\ reactionWheels[1].currentAngularMomentum # 0

\* C12: while paused, no frame and no operator command other than the reset
\* (the desaturate key, the mode toggle and stop-all included) changes
\* fuelMass or the momentum of a wheel or a CMG, and none applies a force or
\* a torque to the body.
C12_PausedIsInert ==
  [][ (paused /\ ~KeyDown("r")) =>
        /\ fuelMass' = fuelMass
        /\ reactionWheels' = reactionWheels
        /\ cmgs' = cmgs
        /\ forces' = << >>
        /\ torques' = << >> ]_vars

\* C13: fuelMass lies in [0, maxFuelMass] in every reachable state: after a
\* configuration load with any supplied values, after firings and after
\* resetFuel.
C13_FuelWithinTank ==
  /\ 0 <= fuelMass
  /\ fuelMass <= maxFuelMass

\* C14: after every step that debits fuel through consumeFuel and after every
\* reset (resetFuel), the body mass is dryMass + fuelMass and the inverse
\* mass (in millionths) is 1 / (dryMass + fuelMass), or 0 when that sum is 0.
C14_MassFollowsFuel ==
  [][ (debits' # << >> \/ (backtickPressed /\ KeyDown("r"))) =>
        /\ bodyMass' = dryMass' + fuelMass'
        /\ bodyInvMass' = IF dryMass' + fuelMass' = 0 THEN 0
                          ELSE 1000000 \div (dryMass' + fuelMass') ]_vars

\* A firing has just burnt the last fuel of a vehicle without dry mass.
C14_Witness ==
  /\ debits # << >>
  /\ dryMass = 0
  /\ fuelMass = 0
  /\ bodyMass = 0
  /\ bodyInvMass = 0

\* C15: a frame that attempts a firing with fuelMass <= 0 applies no force,
\* leaves fuelMass and the body mass as they are, and leaves every thruster
\* it tried inactive.
C15_NoFiringOnEmptyTank ==
  [][ ( /\ Frame(AtRest)
        /\ ~paused
        /\ fuelMass <= 0
        /\ PressedInFrame # {} )
      => ( /\ forces' = << >>
           /\ debits' = << >>
           /\ fuelMass' = fuelMass
           /\ bodyMass' = bodyMass
           /\ bodyInvMass' = bodyInvMass
           /\ refused' # << >>
           /\ \A n \in Idx(refused') : ~thrusters'[refused'[n]].active ) ]_vars

\* A frame has just refused the firing of thruster 3 on an empty tank.
C15_Witness ==
  /\ ~paused
  /\ fuelMass = 0
  /\ refused = << 3 >>
  /\ forces = << >>
  /\ ~thrusters[3].active

C17_LatchWrites ==
  [][ /\ (Frame(Kinematics) /\ ~dockingStatus'.inBox) => hasLeftDockingBoxOnce'
      /\ (isDocked /\ ~isDocked') => ~hasLeftDockingBoxOnce'
      /\ (backtickPressed /\ KeyDown("r")) => ~hasLeftDockingBoxOnce'
      /\ (hasLeftDockingBoxOnce /\ ~hasLeftDockingBoxOnce') =>
           ((isDocked /\ ~isDocked') \/ (backtickPressed /\ KeyDown("r"))) ]_vars

\* C18: the state leaves DOCKED only through the pause toggle issued while
\* DOCKED and paused, and that step ends UNDOCKED and unpaused with
\* undockTime at the current time, accumulatedPausedTime = 0 and an
\* elapsed-since-undock time of 0, whatever preceded it.
C18_UndockStartsClock ==
  [][ (isDocked /\ ~isDocked') =>
        /\ backtickPressed /\ KeyDown("p")
        /\ paused
        /\ ~paused'
        /\ undockTime' = now
        /\ accumulatedPausedTime' = 0
        /\ elapsedMilliseconds' = 0 ]_vars

\* C19: the displayed elapsed time does not change across steps that stay
\* paused and UNDOCKED, and the step that begins the pause freezes it at its
\* value of that moment; it does not change across steps that stay DOCKED
\* after an undock, where it is the value recorded by the docking step, which
\* is the elapsed value of that moment.
C19_FrozenClock ==
  [][ /\ (~isDocked /\ ~isDocked' /\ paused') =>
           displayedElapsed' = displayedElapsed
      /\ (isDocked' /\ undockTime # null /\ undockTime' # null) =>
           /\ displayedElapsed' = displayedElapsed
           /\ displayedElapsed' = lastDockedTime' ]_vars

\* A frame ran during a pause that has lasted for some time: the display
\* still shows the time at which the pause began.
C19_Witness ==
  /\ ~isDocked
  /\ paused
  /\ pausedStartTime # null
  /\ now > pausedStartTime
  /\ oldTime = now
  /\ displayedElapsed = pausedStartTime - undockTime - accumulatedPausedTime
  /\ displayedElapsed < now - undockTime - accumulatedPausedTime

C21_BindingIsIdempotent ==
  [][ \A config \in RawThrusterConfigs :
        ( /\ InitializeThrusters(config)
          /\ keyToThrusterIndices = ProcessThrusterConfig(SanitizedThrusters(config)) )
        => keyToThrusterIndices' = keyToThrusterIndices ]_vars

\* C22: after a thruster load every thruster has thrust > 0 and isp > 0: a
\* configured thrust that is not a number or is <= 0 becomes 50, such an isp
\* becomes 300, and positive values are kept.
C22_LoadSanitizes ==
  [][ \A config \in RawThrusterConfigs :
        InitializeThrusters(config) =>
          \A i \in Idx(config) :
            /\ thrusters'[i].thrust > 0
            /\ thrusters'[i].isp > 0
            /\ thrusters'[i].thrust =
                 IF config[i].thrust.kind = "number" /\ config[i].thrust.value > 0
                 THEN config[i].thrust.value ELSE 50
            /\ thrusters'[i].isp =
                 IF config[i].isp.kind = "number" /\ config[i].isp.value > 0
                 THEN config[i].isp.value ELSE 300 ]_vars

\* A second load replaced text for a thrust and a negative isp by the
\* defaults.
C22_Witness ==
  /\ Len(keyToThrusterIndices["u"]) = 2
  /\ thrusters[3].thrust = 50
  /\ thrusters[3].isp = 300
  /\ thrusters[1].thrust = 981

\* C23: in reaction-wheel mode the magnitude of the torque applied to a
\* wheel in one applyControlTorque step never exceeds that wheel's maxTorque.
C23_WheelTorqueWithinLimit ==
  \A i \in Idx(reactionWheels) :
    Abs(wheelTorques[i]) <= reactionWheels[i].maxTorque

\* C24: in CMG mode a desaturation step in which at least one thruster fires
\* strictly decreases the magnitude of the total CMG momentum.
C24_CmgBleedDecreases ==
  [][ (DesaturationOnly /\ mode = "cmgs" /\ forces' # << >>) =>
        CmgMomentumSq(cmgs') < CmgMomentumSq(cmgs) ]_vars

\* C26: in CMG mode a desaturation step on a total momentum of magnitude 5 or
\* more, with a thruster aligned against it, lowers that magnitude (so that
\* repeated steps bring it below 5), and a step that ends below 5 clears
\* desaturationActive; magnitudes between 5 and 10 included.
C26_CmgDesaturationConverges ==
  [][ ( /\ DesaturationOnly
        /\ mode = "cmgs"
        /\ CmgMomentumSq(cmgs) >= CmgDesatDone * CmgDesatDone
        /\ \E n \in Idx(thrusters) : Aligned(thrusters[n], TotalCmgMomentum(cmgs)) )
      => ( /\ CmgMomentumSq(cmgs') < CmgMomentumSq(cmgs)
           /\ CmgMomentumSq(cmgs') < CmgDesatDone * CmgDesatDone
                => ~desaturationActive' ) ]_vars

\* C27: after a desaturateWithThrusters call desaturationActive is true
\* exactly when the deactivation threshold is not met: in reaction-wheel mode
\* iff the peak wheel |momentum| is >= 0.5, in CMG mode iff the total CMG
\* momentum magnitude is >= 5; in THRUSTERS mode the call changes neither the
\* flag nor the momenta and applies no force.
C27_FlagFollowsThreshold ==
  [][ DesaturationCall =>
        CASE mode = "reactionwheels" ->
               desaturationActive' = (PeakWheelMomentum(reactionWheels', 1) >= 50)
          [] mode = "cmgs" ->
               desaturationActive' = (CmgMomentumSq(cmgs') >= 500 * 500)
          [] OTHER ->
               /\ desaturationActive' = desaturationActive
               /\ reactionWheels' = reactionWheels
               /\ cmgs' = cmgs
               /\ forces' = << >> ]_vars

\* The flag stands in CMG mode on a total momentum between the deactivation
\* threshold and the trigger.
C27_Witness ==
  /\ mode = "cmgs"
  /\ desaturationActive
  /\ CmgMomentumSq(cmgs) >= 500 * 500
  /\ CmgMomentumSq(cmgs) < 1000 * 1000

\* C25: in reaction-wheel mode no desaturation step increases the absolute
\* stored momentum of a wheel, whether the wheel holds positive, negative or
\* zero momentum.
C25_WheelBleedTowardZero ==
  [][ (DesaturationOnly /\ mode = "reactionwheels") =>
        \A i \in Idx(reactionWheels) :
          Abs(reactionWheels'[i].currentAngularMomentum)
            <= Abs(reactionWheels[i].currentAngularMomentum) ]_vars

C29_CmgMomentumIntegratesTorque ==
  [][ (Frame(AtRest) /\ mode = "cmgs" /\ torques' # << >>) =>
        \A n \in Idx(torques') :
          VScale(VSub(cmgs'[torques'[n].index].currentAngularMomentum,
                      cmgs[torques'[n].index].currentAngularMomentum), InvDt)
            = VScale(torques'[n].torque, -1) ]_vars

\* A frame that measured two milliseconds or more applied CMG torque.
C29_Witness ==
  /\ mode = "cmgs"
  /\ torques # << >>
  /\ torques[2].torque[3] # 0
  /\ cmgs[2].currentAngularMomentum # Zero3
  /\ oldTime = now
  /\ now >= 2

\* C30: with fine control and timed firing enabled every channel of the
\* active fine-control set is on its way out: it carries the time of its
\* activation, and a frame leaves no channel in the set whose activation lies
\* firingDuration or more in the past; so no channel stays active for ever
\* without a new key press.
C30_TimedChannelsExpire ==
  [][ (fineControlMode' /\ timedFiringEnabled') =>
        \A k \in fineControlKeys' :
          /\ fineControlKeyStartTimes'[k] # null
          /\ Frame(AtRest) => now - fineControlKeyStartTimes'[k] < firingDuration ]_vars

RECURSIVE SumFirst(_, _)
\* The sum of the first n entries of a sequence of numbers.
SumFirst(s, n) == IF n = 0 THEN 0 ELSE s[n] + SumFirst(s, n - 1)

\* C31: an accepted firing applies the full force dir * thrust and debits
\* thrust / (isp * 9.81) * dt, the tank stopping at 0; the firing whose debit
\* empties the tank still applies its force, leaves its thruster inactive and
\* is the last firing of its frame; with an empty tank a frame fires nothing.
C31_ExhaustingFiring ==
  [][ /\ Len(forces') = Len(debits')
      /\ \A n \in Idx(forces') :
           LET t == thrusters[forces'[n].thruster]
           IN  /\ forces'[n].force = VScale(t.dir, t.thrust * 10)
               /\ forces'[n].at = t.pos
               /\ debits'[n] = Quot(t.thrust * ClockDelta * 100, t.isp * 981)
               /\ fuelMass - SumFirst(debits', n - 1) > 0
      /\ forces' # << >> =>
           /\ fuelMass' = Max(0, fuelMass - SumFirst(debits', Len(debits')))
           /\ fuelMass' = 0 =>
                ~thrusters'[forces'[Len(forces')].thruster].active
      /\ fuelMass = 0 => (forces' = << >> /\ debits' = << >>) ]_vars

\* Channels u and w were pressed together: thruster 3 fired, emptied the tank
\* and went inactive, and thruster 1 was refused in the same frame.
C31_Witness ==
  /\ fuelMass = 0
  /\ Len(forces) = 1
  /\ forces[1].thruster = 3
  /\ debits[1] > 0
  /\ ~thrusters[3].active
  /\ refused = << 1 >>

\* The thruster indices bound to channel k.
BoundTo(bindings, k) == { bindings[k][n] : n \in 1..Len(bindings[k]) }

\* The translation channel of an axis (1: x, 2: y, 3: z) and a sign.
TranslationChannel ==
  [ w |-> << 3, 1 >>, s |-> << 3, -1 >>, a |-> << 1, 1 >>, d |-> << 1, -1 >>,
    e |-> << 2, 1 >>, q |-> << 2, -1 >> ]

\* The rotation channel of an axis and a sign.
RotationChannel ==
  [ k |-> << 1, 1 >>, i |-> << 1, -1 >>, j |-> << 2, 1 >>, l |-> << 2, -1 >>,
    o |-> << 3, 1 >>, u |-> << 3, -1 >> ]

\* C32: an auto-bound thruster is bound to exactly the translation channels
\* whose axis component of the unit direction, taken with the channel's sign,
\* exceeds cos(65 degrees), and the rotation channels whose axis component of
\* position x direction, taken with the channel's sign, exceeds 0.025; a
\* component at the threshold binds nothing and no axis has both signs bound.
C32_AutoBinding ==
  [][ \A config \in GeometryConfigs :
        LoadThrusterConfig(config) =>
          \A i \in Idx(config) :
            config[i].autoBind # "false" =>
              LET dir == thrusters'[i].dir
                  torque == Cross(thrusters'[i].pos, thrusters'[i].dir)
              IN  /\ \A c \in DOMAIN TranslationChannel :
                       i \in BoundTo(keyToThrusterIndices', c) <=>
                         TranslationChannel[c][2] * dir[TranslationChannel[c][1]] > 4226
                  /\ \A c \in DOMAIN RotationChannel :
                       i \in BoundTo(keyToThrusterIndices', c) <=>
                         RotationChannel[c][2] * torque[RotationChannel[c][1]] > 250000
                  /\ \A c, b \in ChannelKeys :
                       ( /\ c # b
                         /\ i \in BoundTo(keyToThrusterIndices', c)
                         /\ i \in BoundTo(keyToThrusterIndices', b)
                         /\ c \in DOMAIN TranslationChannel <=> b \in DOMAIN TranslationChannel )
                       => (IF c \in DOMAIN TranslationChannel
                           THEN TranslationChannel[c][1] # TranslationChannel[b][1]
                           ELSE RotationChannel[c][1] # RotationChannel[b][1]) ]_vars

\* A thruster pushing along +y with its lever arm exactly at the deadband
\* (0.025 along x) was loaded: it is bound to e and to no rotation channel.
C32_Witness ==
  /\ Len(thrusters) = 1
  /\ thrusters[1].pos = <<25, 0, 0>>
  /\ thrusters[1].dir = <<0, 10000, 0>>
  /\ \A c \in ChannelKeys : (1 \in BoundTo(keyToThrusterIndices, c)) <=> (c = "e")

\* C33: a thruster with autoBind false is bound to exactly the channels whose
\* labels appear in its keybind list after lower-casing and trimming, whatever
\* its geometry; unknown and empty labels are ignored (the load goes through),
\* and an empty or missing list binds nothing; any other thruster is bound by
\* its geometry alone.
C33_CustomKeybinds ==
  [][ \A config \in GeometryConfigs :
        LoadThrusterConfig(config) =>
          \A i \in Idx(config) :
            LET labels == IF config[i].keybind.isArray
                          THEN config[i].keybind.labels ELSE << >>
            IN  /\ Len(thrusters') = Len(config)
                /\ \A c \in ChannelKeys :
                     i \in BoundTo(keyToThrusterIndices', c) <=>
                       IF config[i].autoBind = "false"
                       THEN \E n \in Idx(labels) : NormalizedKey(labels[n]) = << c >>
                       ELSE c \in BoundChannels(
                                    UnitDirection(config[i].direction),
                                    Cross(config[i].position,
                                          UnitDirection(config[i].direction))) ]_vars

\* C34: a step that debits fuel (consumeFuel) or resets it (resetFuel in
\* resetSimulation) leaves the body's inertia and inverse inertia, dryMass and
\* maxFuelMass as they were, and leaves the body's mass at dryMass + fuelMass.
C34_InertiaUntouched ==
  [][ (debits' # << >> \/ (backtickPressed /\ KeyDown("r"))) =>
        /\ bodyInertia' = bodyInertia
        /\ bodyInvInertia' = bodyInvInertia
        /\ dryMass' = dryMass
        /\ maxFuelMass' = maxFuelMass
        /\ bodyMass' = dryMass + fuelMass' ]_vars

\* A firing has burnt fuel on a body that carries a configured inertia.
C34_Witness ==
  /\ debits # << >>
  /\ debits[1] > 0
  /\ fuelMass < maxFuelMass
  /\ bodyMass = dryMass + fuelMass
  /\ bodyInertia = <<2, 4, 5>>
  /\ bodyInvInertia = <<500, 250, 200>>

\* C35: DOCKED implies paused after every step, and a frame that starts
\* DOCKED fires no thruster, applies no torque, debits no fuel and leaves the
\* pose and the actuators as they are (no control phase, no physics step).
C35_DockedIsPaused ==
  [][ /\ isDocked' => paused'
      /\ (isDocked /\ Frame(Kinematics)) =>
           /\ paused
           /\ forces' = << >>
           /\ torques' = << >>
           /\ debits' = << >>
           /\ UNCHANGED << bodyVars, fuelVars, actuatorVars >> ]_vars

\* Docked by a frame after a flight, away from the reference pose, and a
\* later frame has run while DOCKED.
C35_Witness ==
  /\ isDocked
  /\ paused
  /\ undockTime # null
  /\ canDock
  /\ position # Zero3
  /\ oldTime > undockTime + lastDockedTime

\* C36: in every reachable DOCKED state the vehicle's linear and angular
\* velocity are zero.
C36_DockedAtRest ==
  isDocked => (velocity = Zero3 /\ angularVelocity = Zero3)

\* Docked by a frame away from the reference pose, with wheel momentum left
\* from the flight, and the desaturate key has fired a thruster while docked.
C36_Witness ==
  /\ isDocked
  /\ undockTime # null
  /\ position # Zero3
  /\ mode = "reactionwheels"
  /\ forces # << >>
  /\ velocity = Zero3
  /\ angularVelocity = Zero3

\* The torque vector the frame about to run requests.
RequestedTorque ==
  ControlTorque(mode, PressedInFrame,
                TorquePerAxis(mode, reactionWheels, cmgs, torquePercentage))

\* A step in which applyCMGControl ran.
CmgControlStep ==
  /\ torques' # << >>
  /\ \A n \in Idx(torques') : torques'[n].by = "cmg"

\* C37: in CMG mode every CMG is handed the whole requested torque: one
\* applyControlTorque call applies one torque per CMG, each the request limited
\* by that CMG alone, and when every CMG is below its momentum capacity and the
\* request is within every maxTorque the vehicle receives N times the request.
C37_EveryCmgFullTorque ==
  [][ CmgControlStep =>
        /\ Len(torques') = Len(cmgs)
        /\ \A i \in Idx(cmgs) :
             torques'[i].torque = CmgActualTorque(cmgs[i], RequestedTorque)
        /\ ( \A i \in Idx(cmgs) :
               /\ LenSq(cmgs[i].currentAngularMomentum)
                    < cmgs[i].maxAngularMomentum * cmgs[i].maxAngularMomentum
               /\ LenSq(RequestedTorque) <= cmgs[i].maxTorque * cmgs[i].maxTorque )
           => /\ \A i \in Idx(cmgs) : torques'[i].torque = RequestedTorque
              /\ SumVectors([ i \in Idx(cmgs) |-> torques'[i].torque ], 1)
                   = VScale(RequestedTorque, Len(cmgs)) ]_vars

\* Two unsaturated CMGs have each applied the whole request of 12.00 about z:
\* the vehicle received 24.00.
C37_Witness ==
  /\ mode = "cmgs"
  /\ Len(torques) = 2
  /\ torques[1].torque = <<0, 0, 1200>>
  /\ torques[2].torque = <<0, 0, 1200>>
  /\ \A i \in Idx(cmgs) : cmgs[i].maxTorque = 1200

\* The bindings of thruster i on the channels pressed in the frame about to
\* run: one pair (channel, place in its list) per binding.
ActiveBindings(i) ==
  UNION { { << c, n >> : n \in { m \in Idx(keyToThrusterIndices[c]) :
                                   keyToThrusterIndices[c][m] = i } } :
          c \in PressedInFrame }

\* C38: in THRUSTERS mode an unpaused frame that leaves fuel in the tank has
\* fired every thruster once per active channel it is bound to: its force is
\* applied, and its fuel debit taken, as many times as it has active bindings.
C38_OncePerActiveChannel ==
  [][ (mode = "thrusters" /\ ~paused /\ Frame(AtRest) /\ fuelMass' > 0) =>
        /\ Len(debits') = Len(forces')
        /\ \A i \in Idx(thrusters) :
             /\ Cardinality({ n \in Idx(forces') : forces'[n].thruster = i })
                  = Cardinality(ActiveBindings(i))
             /\ \A n \in Idx(forces') :
                  forces'[n].thruster = i =>
                    /\ forces'[n].force = VScale(thrusters[i].dir, thrusters[i].thrust * 10)
                    /\ debits'[n] = FuelConsumed(thrusters[i], ClockDelta)
        /\ fuelMass' = fuelMass - SumFirst(debits', Len(debits')) ]_vars

\* Channels e and o were active together: thruster 2 fired twice in one frame
\* and was debited twice, with fuel left.
C38_Witness ==
  /\ Len(forces) = 2
  /\ forces[1].thruster = 2
  /\ forces[2].thruster = 2
  /\ debits = << 1, 1 >>
  /\ fuelMass = 1

\* C39: desaturationActive changes only in a step that calls
\* desaturateWithThrusters in reaction-wheel or CMG mode; a mode toggle and a
\* reset leave it as it is, and so does a desaturate key in THRUSTERS mode.
C39_FlagWrittenByDesaturationOnly ==
  [][ /\ desaturationActive' # desaturationActive =>
           (DesaturationCall /\ mode # "thrusters")
      /\ (KeyDown("t") \/ (backtickPressed /\ KeyDown("r"))
            \/ (KeyDown("g") /\ mode = "thrusters")) =>
           desaturationActive' = desaturationActive ]_vars

\* Desaturation was started in reaction-wheel mode and a reset followed: the
\* flag is still set, in THRUSTERS mode, docked, with every wheel at zero.
C39_Witness ==
  /\ desaturationActive
  /\ mode = "thrusters"
  /\ isDocked
  /\ undockTime = null
  /\ \A i \in Idx(reactionWheels) : reactionWheels[i].currentAngularMomentum = 0

\* C40: with CMGs but no reaction wheel configured, the mode toggle takes
\* THRUSTERS to reaction-wheel mode, and a running frame in that mode with a
\* rotation channel active applies no torque, fires no thruster, debits no
\* fuel and changes no stored momentum.
C40_EmptyWheelMode ==
  [][ (Len(reactionWheels) = 0 /\ Len(cmgs) > 0) =>
        /\ (mode = "thrusters" /\ KeyDown("t")) => mode' = "reactionwheels"
        /\ ( /\ mode = "reactionwheels"
             /\ ~paused
             /\ PressedInFrame \cap RotationKeys # {}
             /\ Frame(AtRest) )
           => /\ torques' = << >>
              /\ forces' = << >>
              /\ debits' = << >>
              /\ cmgs' = cmgs
              /\ reactionWheels' = reactionWheels
              /\ fuelMass' = fuelMass ]_vars

\* Reaction-wheel mode on a vehicle without wheels, running, with channel u
\* held over a frame that took time: nothing was applied or fired.
C40_Witness ==
  /\ Len(reactionWheels) = 0
  /\ Len(cmgs) > 0
  /\ mode = "reactionwheels"
  /\ ~paused
  /\ "u" \in keys
  /\ oldTime = now
  /\ unpausedSinceUndock > 0
  /\ torques = << >>
  /\ forces = << >>
  /\ fuelMass = maxFuelMass
  /\ \A i \in Idx(cmgs) : cmgs[i].currentAngularMomentum = Zero3

====
